---- MODULE Spec2Model ----
(***************************************************************************)
(* Receive-side active stage of the IronRDP client.                        *)
(*                                                                         *)
(*  - SpecReasm : one DynamicChannel and its CompleteData reassembler      *)
(*                (ironrdp_client/src/active_session/x224.rs)              *)
(*  - SpecDvc   : Processor::process_dvc_message over the dynamic channel  *)
(*                table (same file)                                        *)
(*  - SpecRfx, SpecRfxFrame : the RFX sequence engine                      *)
(*                (ironrdp-session/src/active_session/codecs/rfx.rs)       *)
(*  - SpecActive : the loop of process_inner around Processor::process     *)
(*                (ironrdp_client/src/active_session.rs, x224.rs)          *)
(*  - SpecFraming : the outer framing, encoded and parsed back             *)
(*                (ironrdp/src/lib.rs)                                     *)
(*  - SpecRegion : Region under union_rectangle                            *)
(*  - SpecGfx : one graphics handler and its observer                      *)
(*  - SpecReader : the one-PDU reader on any header                        *)
(*                (ironrdp/src/lib.rs, async_read_complete_pdu)            *)
(*  - SpecEnvelope : the MCS PDUs the replies to a DRDYNVC PDU are sent in  *)
(*                (ironrdp_client/src/transport.rs)                        *)
(*  - SpecLanes : data PDUs interleaved on two open dynamic channels        *)
(*  - SpecWire : PDUs written by two threads through clones of the stream   *)
(*  - SpecMain : one run of the client, from connect to its exit code      *)
(*                (ironrdp_client/src/main.rs)                             *)
(*  - SpecStream : the clones of one CloneableStream, one thread each      *)
(*                (ironrdp_client/src/utils/cloneable_stream.rs)           *)
(*                (ironrdp_client/src/active_session/x224/gfx.rs)          *)
(*                                                                         *)
(* Every specification leaves the variables of the other components        *)
(* untouched.                                                              *)
(***************************************************************************)
EXTENDS Integers, Sequences, FiniteSets, TLC

\* ------------------------------------------------------------------ bounds
\* Largest total_data_size a DataFirst PDU announces.
MaxTotal == 3
\* Largest number of payload bytes in one DataFirst / Data PDU.
MaxFrag == 2
\* Number of PDUs fed to the standalone dynamic channel.
MaxPdus == 3
\* Number of DRDYNVC PDUs fed to the X224 processor.
MaxDvcPdus == 3
\* Largest total_data_size / payload length of a PDU fed to the processor.
MaxDvcTotal == 2
MaxDvcFrag == 1
\* Number of PDUs the active-stage loop reads.
MaxActivePdus == 3
\* Largest number of replies the fast-path processor leaves in the output
\* buffer for one PDU.
MaxReplies == 1
\* Largest payload of a framed PDU; above 125 the fast-path length takes two
\* bytes.
MaxPayload == 130
\* Number of rectangles united into one Region.
MaxInserts == 3
\* Number of bytes the underlying stream holds unread.
MaxUnread == 2
\* Number of PDUs the receive loop of one run of the client reads.
MaxMainReads == 4
\* Largest total length a header given to the one-PDU reader declares.
MaxDeclared == 10
\* Number of Send-Data-Indications whose replies are followed, and the
\* largest payload of a reply.
MaxEnvelopeCalls == 2
MaxEnvelopePayload == 3
\* Number of data PDUs interleaved on two dynamic channels, and the largest
\* total_data_size and payload length among them.
MaxLanePdus == 4
MaxLaneTotal == 3
MaxLaneFrag == 2
\* Number of PDUs a thread writes to the shared stream, and the largest
\* length of one.
MaxWirePdus == 2
MaxWireLen == 2
\* Number of messages handed to one graphics handler.
MaxGfxCalls == 3

VARIABLES
    data,       \* DynamicChannel.data : CompleteData {total_size, data}
    trace       \* history: the PDUs the channel processed, with what the
                \* handler was given for each

reasmVars == <<data, trace>>

VARIABLES
    dynamic_channels,   \* Processor.dynamic_channels : channel_id -> DynamicChannel
    channel_map,        \* Processor.channel_map : channel_name -> channel_id
    output,             \* client PDUs encoded while processing the last PDU
    result,             \* what process_dvc_message returned for the last PDU
    request,            \* history: the last server PDU processed
    rx,                 \* history: [pdus, bytes] received so far
    handled             \* history: the message the last PDU handed to a
                        \* handler, and per channel id the EndFrame PDUs its
                        \* graphics handler has parsed since it was created

dvcVars ==
    <<dynamic_channels, channel_map, output, result, request, rx, handled>>

VARIABLES
    state,      \* DecodingContext.state : SequenceState
    context,    \* DecodingContext.context : rfx::ContextPdu
    channels,   \* DecodingContext.channels : rfx::ChannelsPdu
    blits,      \* the apply_tile calls the last decode made on the image
    ret,        \* what the last decode returned
    call,       \* history: the arguments of the last decode
    accepted    \* history: the Context / Channels headers last accepted

rfxVars == <<state, context, channels, blits, ret, call, accepted>>

VARIABLES
    pc,             \* process_inner: "Top" of the loop, "Decoded" (a PDU was
                    \* read, its arm not yet run), "Bottom" (before the
                    \* flush), "Done" (returned)
    exit,           \* "Running", or how process_inner ended: "Ok", "Err",
                    \* "Panic"
    error,          \* the RdpError of exit = "Err"
    output_buffer,  \* process_inner's output_buffer
    x224_sink,      \* where Processor::process encodes its replies
    drdynvc_channel_id, \* Processor.drdynvc_channel_id
    inbound,        \* history: the PDU last read
    processed,      \* history: what the arm of the last PDU returned
    iteration,      \* history: number of PDUs read
    caused,         \* history: the replies produced so far
    wire            \* history: the reads and writes on the stream, in order

activeVars ==
    <<pc, exit, error, output_buffer, x224_sink, drdynvc_channel_id, inbound,
      processed, iteration, caused, wire>>

VARIABLES
    framing     \* the last PDU framed: what was encoded, the bytes on the
                \* stream, and what the parser made of them

framingVars == <<framing>>

VARIABLES
    united,     \* a Region: [extents, rectangles]
    inserted    \* history: the rectangles united into it, in order

regionVars == <<united, inserted>>

VARIABLES
    gfx,        \* a gfx::Handler: [kind, frames_decoded, observer]
    gfx_call,   \* history: the last message it was given, what it returned
                \* and what it sent to the observer meanwhile
    gfx_calls   \* history: number of messages it was given

gfxVars == <<gfx, gfx_call, gfx_calls>>

VARIABLES
    locked,     \* CloneableStream: for each Inner, the thread that holds its
                \* mutex, or "free"
    calls,      \* for each thread with a clone, where it is in a call of
                \* read, write or flush: [at, op]
    unread      \* bytes the underlying stream holds for the next read

streamVars == <<locked, calls, unread>>

VARIABLES
    run_at,         \* where run is: "connect", "connection", "active",
                    \* "event_loop" (launch_gui), "returned", "exited"
    gui,            \* whether the client was built with the gui feature
    closed,         \* whether the underlying stream was closed
    reads,          \* PDUs read by process_inner
    loop_result,    \* what process_inner returned, NotReturned before
    run_result,     \* what run returned, NotReturned before
    exit_code       \* what main passed to std::process::exit, "" before

mainVars ==
    <<run_at, gui, closed, reads, loop_result, run_result, exit_code>>

VARIABLES
    reading     \* history: the bytes given to the one-PDU reader and what it
                \* returned

readerVars == <<reading>>

VARIABLES
    envelope    \* history: the ids of the last Send-Data-Indication given to
                \* Processor::process, the payloads of the replies and the
                \* MCS PDUs they were sent in: [calls, inbound, payloads, sent]

envelopeVars == <<envelope>>

VARIABLES
    lanes,      \* two open dynamic channels, by id (as dynamic_channels)
    fed,        \* history: per channel, the number of bytes addressed to it
    lane_call,  \* history: the last data PDU: [id, bytes, ret]
    lane_pdus   \* history: number of data PDUs processed

laneVars == <<lanes, fed, lane_call, lane_pdus>>

VARIABLES
    sending,        \* for each writing thread, where it is in write_all of a
                    \* PDU: [at, pdu, left]
    writer_lock,    \* the thread holding the mutex of the writer Inner, or
                    \* "free"
    underlying      \* history: the bytes written to the underlying stream,
                    \* each tagged with the thread and PDU it belongs to

wireVars == <<sending, writer_lock, underlying>>

\* The components that stand alone.
aloneVars ==
    <<framingVars, regionVars, gfxVars, streamVars, mainVars, readerVars,
      envelopeVars, laneVars, wireVars>>

\* What the dynamic channel and the sequence engine on their own leave alone.
outsideReasm == <<dvcVars, rfxVars, activeVars, aloneVars>>
outsideRfx == <<reasmVars, dvcVars, activeVars, aloneVars>>
\* What the X224 processor and the loop around it leave alone.
outsideSession == <<reasmVars, rfxVars, aloneVars>>
outsideFraming ==
    <<reasmVars, dvcVars, rfxVars, activeVars, regionVars, gfxVars, streamVars,
      mainVars,
      readerVars,
      envelopeVars,
      laneVars,
      wireVars>>
outsideRegion ==
    <<reasmVars, dvcVars, rfxVars, activeVars, framingVars, gfxVars, streamVars,
      mainVars,
      readerVars,
      envelopeVars,
      laneVars,
      wireVars>>
outsideGfx ==
    <<reasmVars, dvcVars, rfxVars, activeVars, framingVars, regionVars,
      streamVars, mainVars,
      readerVars,
      envelopeVars,
      laneVars,
      wireVars>>
outsideStream ==
    <<reasmVars, dvcVars, rfxVars, activeVars, framingVars, regionVars,
      gfxVars, mainVars,
      readerVars,
      envelopeVars,
      laneVars,
      wireVars>>
outsideReader ==
    <<reasmVars, dvcVars, rfxVars, activeVars, framingVars, regionVars,
      gfxVars, streamVars, mainVars,
      envelopeVars,
      laneVars,
      wireVars>>
outsideEnvelope ==
    <<reasmVars, dvcVars, rfxVars, activeVars, framingVars, regionVars,
      gfxVars, streamVars, mainVars, readerVars,
      laneVars,
      wireVars>>
outsideLanes ==
    <<reasmVars, dvcVars, rfxVars, activeVars, framingVars, regionVars,
      gfxVars, streamVars, mainVars, readerVars, envelopeVars,
      wireVars>>
outsideWire ==
    <<reasmVars, dvcVars, rfxVars, activeVars, framingVars, regionVars,
      gfxVars, streamVars, mainVars, readerVars, envelopeVars, laneVars>>
outsideMain ==
    <<reasmVars, dvcVars, rfxVars, activeVars, framingVars, regionVars,
      gfxVars, streamVars,
      readerVars,
      envelopeVars,
      laneVars,
      wireVars>>

vars == <<reasmVars, dvcVars, rfxVars, activeVars, aloneVars>>

\* ----------------------------------------------------------------- Option
None == <<>>
Some(x) == <<x>>
IsSome(o) == o # <<>>

RECURSIVE SumLens(_, _, _)
\* Number of payload bytes carried by tr[i..j].
SumLens(tr, i, j) ==
    IF i > j THEN 0 ELSE Len(tr[i].bytes) + SumLens(tr, i + 1, j)

RECURSIVE Concat(_, _, _)
\* Payloads of tr[i..j] concatenated in arrival order.
Concat(tr, i, j) ==
    IF i > j THEN <<>> ELSE tr[i].bytes \o Concat(tr, i + 1, j)

\* The next n payload bytes of the channel's inbound stream. The code never
\* inspects a payload byte (it only moves, appends and clears vectors), so
\* every byte is modelled by its position in the stream: all bytes distinct.
Fresh(tr, n) == [k \in 1..n |-> SumLens(tr, 1, Len(tr)) + k]

\* ------------------------------------------------------------ CompleteData
CompleteData_new == [total_size |-> 0, data |-> <<>>]

IsIdle(self) == self.total_size = 0 /\ self.data = <<>>

\* Mutant: a DataFirst that interrupts a reassembly is appended to what was
\* accumulated.
CD_process_data_first_pdu_keeps_partial(self, total_data_size, bytes) ==
    IF total_data_size = Len(bytes)
    THEN [self |-> self, ret |-> Some(bytes)]
    ELSE [self |-> [total_size |-> total_data_size,
                    data |-> self.data \o bytes],
          ret |-> None]

\* CompleteData::process_data_first_pdu
CD_process_data_first_pdu(self, total_data_size, bytes) ==
    LET cleared == IF self.total_size # 0 \/ self.data # <<>>
                   THEN [self EXCEPT !.data = <<>>]
                   ELSE self
    IN  IF total_data_size = Len(bytes)
        THEN [self |-> cleared, ret |-> Some(bytes)]
        ELSE [self |-> [total_size |-> total_data_size, data |-> bytes],
              ret |-> None]

\* Mutant: an idle reassembler takes a Data PDU for a fragment.
CD_process_data_pdu_idle_accumulates(self, bytes) ==
    LET actual_data_length == Len(self.data) + Len(bytes)
    IN  IF actual_data_length < self.total_size
        THEN [self |-> [self EXCEPT !.data = self.data \o bytes],
              ret |-> None]
        ELSE IF actual_data_length = self.total_size
        THEN [self |-> [total_size |-> 0, data |-> <<>>],
              ret |-> Some(self.data \o bytes)]
        ELSE [self |-> [total_size |-> 0, data |-> <<>>],
              ret |-> None]

\* Mutant: the completing fragment is not appended before the drain.
CD_process_data_pdu_drops_last(self, bytes) ==
    IF self.total_size = 0 /\ self.data = <<>>
    THEN [self |-> self, ret |-> Some(bytes)]
    ELSE LET actual_data_length == Len(self.data) + Len(bytes)
         IN  IF actual_data_length < self.total_size
             THEN [self |-> [self EXCEPT !.data = self.data \o bytes],
                   ret |-> None]
             ELSE IF actual_data_length = self.total_size
             THEN [self |-> [total_size |-> 0, data |-> <<>>],
                   ret |-> Some(self.data)]
             ELSE [self |-> [total_size |-> 0, data |-> <<>>],
                   ret |-> None]

\* Mutant: an overrun keeps the accumulated bytes instead of resetting.
CD_process_data_pdu_keeps_overrun(self, bytes) ==
    IF self.total_size = 0 /\ self.data = <<>>
    THEN [self |-> self, ret |-> Some(bytes)]
    ELSE LET actual_data_length == Len(self.data) + Len(bytes)
         IN  IF actual_data_length < self.total_size
             THEN [self |-> [self EXCEPT !.data = self.data \o bytes],
                   ret |-> None]
             ELSE IF actual_data_length = self.total_size
             THEN [self |-> [total_size |-> 0, data |-> <<>>],
                   ret |-> Some(self.data \o bytes)]
             ELSE [self |-> [self EXCEPT !.data = self.data \o bytes],
                   ret |-> None]

\* CompleteData::process_data_pdu
CD_process_data_pdu(self, bytes) ==
    IF self.total_size = 0 /\ self.data = <<>>
    THEN [self |-> self, ret |-> Some(bytes)]
    ELSE LET actual_data_length == Len(self.data) + Len(bytes)
         IN  IF actual_data_length < self.total_size
             THEN [self |-> [self EXCEPT !.data = self.data \o bytes],
                   ret |-> None]
             ELSE IF actual_data_length = self.total_size
             THEN [self |-> [total_size |-> 0, data |-> <<>>],
                   ret |-> Some(self.data \o bytes)]
             ELSE [self |-> [total_size |-> 0, data |-> <<>>],
                   ret |-> None]

\* ---------------------------------------------------------- DynamicChannel
\* What DynamicChannel::process_data_*_pdu returns: the handler's own result
\* when the reassembler delivered a message, Ok(None) otherwise.
ChannelRet(o) == IF IsSome(o) THEN "Handler" ELSE "OkNone"

\* DynamicChannel::process_data_first_pdu: the handler is given the message
\* exactly when the reassembler returns Some.
DataFirstPdu(total, n) ==
    /\ Len(trace) < MaxPdus
    /\ LET bytes == Fresh(trace, n)
           r == CD_process_data_first_pdu(data, total, bytes)
       IN  /\ data' = r.self
           /\ trace' = Append(trace, [kind |-> "DataFirst", total |-> total,
                                      bytes |-> bytes, handled |-> r.ret,
                                      ret |-> ChannelRet(r.ret)])
    /\ UNCHANGED outsideReasm

\* DynamicChannel::process_data_pdu
DataPdu(n) ==
    /\ Len(trace) < MaxPdus
    /\ LET bytes == Fresh(trace, n)
           r == CD_process_data_pdu(data, bytes)
       IN  /\ data' = r.self
           /\ trace' = Append(trace, [kind |-> "Data", total |-> 0,
                                      bytes |-> bytes, handled |-> r.ret,
                                      ret |-> ChannelRet(r.ret)])
    /\ UNCHANGED outsideReasm

InitReasm ==
    /\ data = CompleteData_new
    /\ trace = <<>>

NextReasm ==
    \/ \E total \in 0..MaxTotal, n \in 0..MaxFrag : DataFirstPdu(total, n)
    \/ \E n \in 0..MaxFrag : DataPdu(n)

\* ------------------------------------------------------- X224 Processor
RDP8_GRAPHICS_PIPELINE_NAME == "Microsoft::Windows::RDS::Graphics"
RDP8_DISPLAY_PIPELINE_NAME == "Microsoft::Windows::RDS::DisplayControl"

\* Names a server asks for: the two known ones and one without a handler.
ChannelNames ==
    {RDP8_GRAPHICS_PIPELINE_NAME, RDP8_DISPLAY_PIPELINE_NAME, "Unknown::Name"}
ChannelIds == {1, 2}
\* dvc::FieldType: the width the channel id is serialized with.
FieldTypes == {"U8", "U16"}

\* What a complete graphics message decompresses and parses to. The payload
\* bytes are opaque here, so their interpretation is an input of its own:
\* whether ZGFX decompression succeeds and the server PDUs that follow
\* ("Malformed": ServerPdu::from_buffer fails there).
GfxPdu(type, frame_id) == [type |-> type, frame_id |-> frame_id]
GfxPdus ==
    {GfxPdu("EndFrame", 7), GfxPdu("Other", 0), GfxPdu("Malformed", 0)}
GfxMessage(zgfx_ok, pdus) == [zgfx_ok |-> zgfx_ok, pdus |-> pdus]
GfxMessages ==
    {GfxMessage(FALSE, <<>>), GfxMessage(TRUE, <<>>)}
    \cup {GfxMessage(TRUE, <<p>>) : p \in GfxPdus}
    \cup {GfxMessage(TRUE, <<GfxPdu("EndFrame", 7), GfxPdu("EndFrame", 8)>>),
          GfxMessage(TRUE, <<GfxPdu("EndFrame", 8), GfxPdu("Other", 0),
                             GfxPdu("EndFrame", 7)>>),
          GfxMessage(TRUE, <<GfxPdu("EndFrame", 7), GfxPdu("Malformed", 0)>>)}

RECURSIVE EndFramesParsed(_)
\* The EndFrame PDUs the graphics handler parses out of a message, in order:
\* those before the first PDU that fails to parse.
EndFramesParsed(pdus) ==
    IF pdus = <<>> \/ Head(pdus).type = "Malformed" THEN <<>>
    ELSE IF Head(pdus).type = "EndFrame"
    THEN <<Head(pdus)>> \o EndFramesParsed(Tail(pdus))
    ELSE EndFramesParsed(Tail(pdus))

\* Mutant: nothing is sent to the observer.
Forward_drops(observer, p, sent) == sent

\* process_complete_data, `else if let Some(handler) = &self.handler`: a PDU
\* that is not an EndFrame is sent to the observer when there is one.
Forward(observer, p, sent) == IF observer THEN Append(sent, p) ELSE sent

RECURSIVE Gfx_parse(_, _, _, _, _)
\* gfx::Handler::process_complete_data, the loop over the decompressed buffer
Gfx_parse(pdus, observer, frames_decoded, acks, sent) ==
    IF pdus = <<>>
    THEN [err |-> FALSE, frames_decoded |-> frames_decoded, acks |-> acks,
          sent |-> sent]
    ELSE LET p == Head(pdus)
         IN  IF p.type = "Malformed"
             THEN [err |-> TRUE, frames_decoded |-> frames_decoded,
                   acks |-> acks, sent |-> sent]
             ELSE IF p.type = "EndFrame"
             THEN Gfx_parse(Tail(pdus), observer, frames_decoded + 1,
                      Append(acks, [queue_depth |-> "Suspend",
                                    frame_id |-> p.frame_id,
                                    total_frames_decoded |-> frames_decoded + 1]),
                      sent)
             ELSE Gfx_parse(Tail(pdus), observer, frames_decoded, acks,
                            Forward(observer, p, sent))

\* Mutant: the count of decoded frames is not kept between messages.
Gfx_process_complete_data_forgets_count(handler, msg) ==
    IF ~msg.zgfx_ok
    THEN [handler |-> handler, err |-> TRUE, reply |-> None, sent |-> <<>>]
    ELSE LET r == Gfx_parse(msg.pdus, handler.observer,
                            handler.frames_decoded, <<>>, <<>>)
         IN  [handler |-> handler,
              err |-> r.err,
              reply |-> IF ~r.err /\ Len(r.acks) > 0 THEN Some(r.acks) ELSE None,
              sent |-> r.sent]

\* gfx::Handler::process_complete_data: [handler, err, reply], and what was
\* sent to the observer
Gfx_process_complete_data(handler, msg) ==
    IF ~msg.zgfx_ok
    THEN [handler |-> handler, err |-> TRUE, reply |-> None, sent |-> <<>>]
    ELSE LET r == Gfx_parse(msg.pdus, handler.observer,
                            handler.frames_decoded, <<>>, <<>>)
         IN  [handler |-> [handler EXCEPT !.frames_decoded = r.frames_decoded],
              err |-> r.err,
              reply |-> IF ~r.err /\ Len(r.acks) > 0 THEN Some(r.acks) ELSE None,
              sent |-> r.sent]

\* display::Handler::process_complete_data: the passthrough handler, which
\* consumes the message and has no reply.
Display_process_complete_data(handler, msg) ==
    [handler |-> handler, err |-> FALSE, reply |-> None, sent |-> <<>>]

\* handler.process_complete_data through the trait object
Handler_process_complete_data(handler, msg) ==
    IF handler.kind = "gfx"
    THEN Gfx_process_complete_data(handler, msg)
    ELSE Display_process_complete_data(handler, msg)

\* gfx::Handler::new
Gfx_Handler_new(observer) ==
    [kind |-> "gfx", frames_decoded |-> 0, observer |-> observer]
\* display::Handler::new
Display_Handler_new ==
    [kind |-> "display", frames_decoded |-> 0, observer |-> FALSE]
\* Processor.gfx_handler of the processor fed DVC PDUs: None, as
\* process_active_stage builds it without the gui feature.
gfx_handler == FALSE

\* DynamicChannel::new
DynamicChannel_new(handler, channel_id, channel_id_type) ==
    [data |-> CompleteData_new, handler |-> handler,
     channel_id_type |-> channel_id_type, channel_id |-> channel_id]

\* Mutant: every name gets the graphics handler.
create_dvc_any_name(channel_name, channel_id, channel_id_type) ==
    Some(DynamicChannel_new(Gfx_Handler_new(gfx_handler),
                            channel_id, channel_id_type))

\* create_dvc
create_dvc(channel_name, channel_id, channel_id_type) ==
    IF channel_name = RDP8_GRAPHICS_PIPELINE_NAME
    THEN Some(DynamicChannel_new(Gfx_Handler_new(gfx_handler),
                                 channel_id, channel_id_type))
    ELSE IF channel_name = RDP8_DISPLAY_PIPELINE_NAME
    THEN Some(DynamicChannel_new(Display_Handler_new,
                                 channel_id, channel_id_type))
    ELSE None

\* Mutant: the capabilities are advertised on every new channel.
negotiate_dvc_any_name(channel_name, channel_id, channel_id_type) ==
    <<[pdu |-> "Data", channel_id_type |-> channel_id_type,
       channel_id |-> channel_id, status |-> "",
       payload |-> "CapabilitiesAdvertise"]>>

\* negotiate_dvc: the PDUs it encodes
negotiate_dvc(channel_name, channel_id, channel_id_type) ==
    IF channel_name = RDP8_GRAPHICS_PIPELINE_NAME
    THEN <<[pdu |-> "Data", channel_id_type |-> channel_id_type,
            channel_id |-> channel_id, status |-> "",
            payload |-> "CapabilitiesAdvertise"]>>
    ELSE <<>>

\* m with key k bound to v (HashMap::insert)
MapInsert(m, k, v) ==
    [x \in DOMAIN m \cup {k} |-> IF x = k THEN v ELSE m[x]]
\* Mutant: remove leaves the entry in place.
MapRemove_keeps(m, k) == m
\* m without key k (HashMap::remove)
MapRemove(m, k) == [x \in DOMAIN m \ {k} |-> m[x]]

\* One more server PDU carrying n payload bytes has been read. An error of
\* process_dvc_message ends process_inner, so no PDU is processed after one.
Received(n) ==
    /\ result = "Ok"
    /\ rx.pdus < MaxDvcPdus
    /\ rx' = [pdus |-> rx.pdus + 1, bytes |-> rx.bytes + n]

\* No message reached a handler; the EndFrame counts are e.
NotHandled(e) ==
    [msg |-> GfxMessage(TRUE, <<>>), delivered |-> FALSE, end_frames |-> e]

ServerPdu(kind, name, id, idt, total, bytes) ==
    [kind |-> kind, channel_name |-> name, channel_id |-> id,
     channel_id_type |-> idt, total_data_size |-> total, bytes |-> bytes]

\* process_dvc_message, dvc::ServerPdu::CapabilitiesRequest
CapabilitiesRequest ==
    /\ Received(0)
    /\ request' = ServerPdu("CapabilitiesRequest", "", 0, "", 0, <<>>)
    /\ output' = <<[pdu |-> "CapabilitiesResponse", channel_id_type |-> "",
                    channel_id |-> 0, status |-> "V1", payload |-> ""]>>
    /\ result' = "Ok"
    /\ handled' = NotHandled(handled.end_frames)
    /\ UNCHANGED <<dynamic_channels, channel_map>>
    /\ UNCHANGED outsideSession

\* process_dvc_message, dvc::ServerPdu::CreateRequest
CreateRequest(name, id, idt) ==
    /\ Received(0)
    /\ request' = ServerPdu("CreateRequest", name, id, idt, 0, <<>>)
    /\ LET created == create_dvc(name, id, idt)
           creation_status == IF IsSome(created) THEN "OK" ELSE "NO_LISTENER"
       IN  /\ IF IsSome(created)
              THEN /\ dynamic_channels' =
                          MapInsert(dynamic_channels, id, created[1])
                   /\ channel_map' = MapInsert(channel_map, name, id)
              ELSE UNCHANGED <<dynamic_channels, channel_map>>
           /\ output' =
                  <<[pdu |-> "CreateResponse", channel_id_type |-> idt,
                     channel_id |-> id, status |-> creation_status,
                     payload |-> ""]>>
                  \o negotiate_dvc(name, id, idt)
           /\ handled' = NotHandled(IF IsSome(created)
                                    THEN [handled.end_frames EXCEPT ![id] = 0]
                                    ELSE handled.end_frames)
    /\ result' = "Ok"
    /\ UNCHANGED outsideSession

\* process_dvc_message, dvc::ServerPdu::CloseRequest
CloseRequest(id, idt) ==
    /\ Received(0)
    /\ request' = ServerPdu("CloseRequest", "", id, idt, 0, <<>>)
    /\ output' = <<[pdu |-> "CloseResponse", channel_id_type |-> idt,
                    channel_id |-> id, status |-> "", payload |-> ""]>>
    /\ dynamic_channels' = MapRemove(dynamic_channels, id)
    /\ result' = "Ok"
    /\ handled' = NotHandled([handled.end_frames EXCEPT ![id] = 0])
    /\ UNCHANGED channel_map
    /\ UNCHANGED outsideSession

\* Mutant: the channels share one reassembly buffer.
Channels_with_shared(channels_, id, chan) ==
    [x \in DOMAIN channels_ |->
        IF x = id THEN chan ELSE [channels_[x] EXCEPT !.data = chan.data]]

\* self.dynamic_channels.get_mut(&data.channel_id): the channel with that id
\* is the one a data PDU changes.
Channels_with(channels_, id, chan) == [channels_ EXCEPT ![id] = chan]

\* What the bytes of a complete message can mean to the handler of chan:
\* only the graphics handler looks into them.
MessagesFor(chan) ==
    IF chan.handler.kind = "gfx" THEN GfxMessages
    ELSE {GfxMessage(TRUE, <<>>)}

\* The tail shared by the DataFirst and Data arms: r is what the channel's
\* reassembler returned; a delivered message goes to the handler, whose
\* reply, if any, is wrapped in a Data PDU.
DispatchData(id, idt, r) ==
    LET chan == dynamic_channels[id]
    IN  \E msg \in (IF IsSome(r.ret) THEN MessagesFor(chan)
                     ELSE {GfxMessage(TRUE, <<>>)}) :
        \E h \in {IF IsSome(r.ret)
                   THEN Handler_process_complete_data(chan.handler, msg)
                   ELSE [handler |-> chan.handler, err |-> FALSE,
                         reply |-> None, sent |-> <<>>]} :
        /\ dynamic_channels' =
               Channels_with(dynamic_channels, id,
                   [chan EXCEPT !.data = r.self, !.handler = h.handler])
        /\ result' = IF h.err THEN "GraphicsPipelineError" ELSE "Ok"
        /\ handled' =
               IF IsSome(r.ret)
               THEN [msg |-> msg, delivered |-> TRUE,
                     end_frames |->
                        IF chan.handler.kind = "gfx" /\ msg.zgfx_ok
                        THEN [handled.end_frames EXCEPT ![id] =
                                 @ + Len(EndFramesParsed(msg.pdus))]
                        ELSE handled.end_frames]
               ELSE NotHandled(handled.end_frames)
        /\ output' = IF IsSome(h.reply)
                     THEN <<[pdu |-> "Data", channel_id_type |-> idt,
                             channel_id |-> id, status |-> "",
                             payload |-> h.reply[1]]>>
                     ELSE <<>>

\* Mutant: a data PDU for a channel that does not exist is dropped.
NoSuchChannel_dropped ==
    /\ result' = "Ok"
    /\ output' = <<>>
    /\ handled' = NotHandled(handled.end_frames)
    /\ UNCHANGED dynamic_channels

\* The DataFirst and Data arms when dynamic_channels.get_mut finds nothing:
\* .ok_or(RdpError::AccessToNonExistingChannel(data.channel_id))?
NoSuchChannel ==
    /\ result' = "AccessToNonExistingChannel"
    /\ output' = <<>>
    /\ handled' = NotHandled(handled.end_frames)
    /\ UNCHANGED dynamic_channels

\* process_dvc_message, dvc::ServerPdu::DataFirst
DataFirst(id, idt, total, n) ==
    /\ Received(n)
    /\ LET bytes == [k \in 1..n |-> rx.bytes + k]
       IN  /\ request' = ServerPdu("DataFirst", "", id, idt, total, bytes)
           /\ IF id \notin DOMAIN dynamic_channels
              THEN NoSuchChannel
              ELSE DispatchData(id, idt,
                       CD_process_data_first_pdu(dynamic_channels[id].data,
                                                 total, bytes))
    /\ UNCHANGED channel_map
    /\ UNCHANGED outsideSession

\* process_dvc_message, dvc::ServerPdu::Data
Data(id, idt, n) ==
    /\ Received(n)
    /\ LET bytes == [k \in 1..n |-> rx.bytes + k]
       IN  /\ request' = ServerPdu("Data", "", id, idt, 0, bytes)
           /\ IF id \notin DOMAIN dynamic_channels
              THEN NoSuchChannel
              ELSE DispatchData(id, idt,
                       CD_process_data_pdu(dynamic_channels[id].data, bytes))
    /\ UNCHANGED channel_map
    /\ UNCHANGED outsideSession

\* Processor::new
InitDvc ==
    /\ dynamic_channels = <<>>
    /\ channel_map = <<>>
    /\ output = <<>>
    /\ result = "Ok"
    /\ request = ServerPdu("", "", 0, "", 0, <<>>)
    /\ rx = [pdus |-> 0, bytes |-> 0]
    /\ handled = NotHandled([id \in ChannelIds |-> 0])

\* process_dvc_message on its own: the loop around it stands still.
NextDvc ==
    \/ CapabilitiesRequest /\ UNCHANGED activeVars
    \/ \E name \in ChannelNames, id \in ChannelIds, idt \in FieldTypes :
           CreateRequest(name, id, idt) /\ UNCHANGED activeVars
    \/ \E id \in ChannelIds, idt \in FieldTypes :
           CloseRequest(id, idt) /\ UNCHANGED activeVars
    \/ \E id \in ChannelIds, idt \in FieldTypes, total \in 0..MaxDvcTotal,
          n \in 0..MaxDvcFrag :
           DataFirst(id, idt, total, n) /\ UNCHANGED activeVars
    \/ \E id \in ChannelIds, idt \in FieldTypes, n \in 0..MaxDvcFrag :
           Data(id, idt, n) /\ UNCHANGED activeVars

\* ---------------------------------------------------- RFX sequence engine
TILE_SIZE == 64

\* u16 arithmetic: a sum or product at or above 2^16 overflows, which panics
\* in a build with overflow checks and wraps in one without.
U16 == 2 ^ 16
Wrap16(x) == x % U16
Overflows16(x) == x >= U16

Min(a, b) == IF a < b THEN a ELSE b
Max(a, b) == IF a > b THEN a ELSE b

Rect(l, t, r, b) == [left |-> l, top |-> t, right |-> r, bottom |-> b]

Pdu(type, v) == [type |-> type, v |-> v]

\* <T>::from_buffer_consume on the head of the input, for the block types T
\* accepts: the parsed PDU and the rest, or a parse error.
Parse(input, types) ==
    IF input # <<>> /\ Head(input).type \in types
    THEN [ok |-> TRUE, pdu |-> Head(input), rest |-> Tail(input)]
    ELSE [ok |-> FALSE, pdu |-> Pdu("", <<>>), rest |-> input]

HeaderTypes == {"Context", "Channels", "CodecVersions"}

RECURSIVE ReadHeaders(_, _, _, _)
\* process_headers, the loop `for _ in 0..3`
ReadHeaders(input, n, ctx, chs) ==
    IF n = 0
    THEN [ok |-> TRUE, context |-> ctx, channels |-> chs, rest |-> input]
    ELSE LET h == Parse(input, HeaderTypes)
         IN  IF ~h.ok
             THEN [ok |-> FALSE, context |-> ctx, channels |-> chs,
                   rest |-> h.rest]
             ELSE IF h.pdu.type = "Context"
             THEN ReadHeaders(h.rest, n - 1, Some(h.pdu.v), chs)
             ELSE IF h.pdu.type = "Channels"
             THEN ReadHeaders(h.rest, n - 1, ctx, Some(h.pdu.v))
             ELSE ReadHeaders(h.rest, n - 1, ctx, chs)

\* The result of a step of decode that ends the call before any frame data.
Failed(self, kind, err, rest) ==
    [self |-> self, kind |-> kind, err |-> err, rest |-> rest,
     headers |-> None, frame |-> 0, damage |-> Rect(0, 0, 0, 0),
     clipping |-> <<>>, blits |-> <<>>]

\* Mutant: an empty channel list is accepted.
process_headers_allows_no_channels(self, input) ==
    LET s == Parse(input, {"Sync"})
        h == ReadHeaders(s.rest, 3, None, None)
    IN  IF ~s.ok THEN Failed(self, "Err", "RfxError", s.rest)
        ELSE IF ~h.ok THEN Failed(self, "Err", "RfxError", h.rest)
        ELSE IF h.context = None
        THEN Failed(self, "Err", "MandatoryHeaderIsAbsent", h.rest)
        ELSE IF h.channels = None
        THEN Failed(self, "Err", "MandatoryHeaderIsAbsent", h.rest)
        ELSE [Failed([state |-> "DataMessages", context |-> h.context[1],
                      channels |-> h.channels[1]], "Ok", "", h.rest)
              EXCEPT !.headers = Some([context |-> h.context[1],
                                       channels |-> h.channels[1]])]

\* Mutant: a missing Context or Channels header keeps the stored one.
process_headers_keeps_stored(self, input) ==
    LET s == Parse(input, {"Sync"})
        h == ReadHeaders(s.rest, 3, Some(self.context), Some(self.channels))
    IN  IF ~s.ok THEN Failed(self, "Err", "RfxError", s.rest)
        ELSE IF ~h.ok THEN Failed(self, "Err", "RfxError", h.rest)
        ELSE IF h.channels[1] = <<>>
        THEN Failed(self, "Err", "NoRfxChannelsAnnounced", h.rest)
        ELSE [Failed([state |-> "DataMessages", context |-> h.context[1],
                      channels |-> h.channels[1]], "Ok", "", h.rest)
              EXCEPT !.headers = Some([context |-> h.context[1],
                                       channels |-> h.channels[1]])]

\* Mutant: the headers are stored before the channel list is looked at.
process_headers_stores_before_check(self, input) ==
    LET s == Parse(input, {"Sync"})
        h == ReadHeaders(s.rest, 3, None, None)
    IN  IF ~s.ok THEN Failed(self, "Err", "RfxError", s.rest)
        ELSE IF ~h.ok THEN Failed(self, "Err", "RfxError", h.rest)
        ELSE IF h.context = None
        THEN Failed(self, "Err", "MandatoryHeaderIsAbsent", h.rest)
        ELSE IF h.channels = None
        THEN Failed(self, "Err", "MandatoryHeaderIsAbsent", h.rest)
        ELSE IF h.channels[1] = <<>>
        THEN Failed([self EXCEPT !.context = h.context[1],
                                 !.channels = h.channels[1]],
                    "Err", "NoRfxChannelsAnnounced", h.rest)
        ELSE [Failed([state |-> "DataMessages", context |-> h.context[1],
                      channels |-> h.channels[1]], "Ok", "", h.rest)
              EXCEPT !.headers = Some([context |-> h.context[1],
                                       channels |-> h.channels[1]])]

\* DecodingContext::process_headers
process_headers(self, input) ==
    LET s == Parse(input, {"Sync"})
        h == ReadHeaders(s.rest, 3, None, None)
    IN  IF ~s.ok THEN Failed(self, "Err", "RfxError", s.rest)
        ELSE IF ~h.ok THEN Failed(self, "Err", "RfxError", h.rest)
        ELSE IF h.context = None
        THEN Failed(self, "Err", "MandatoryHeaderIsAbsent", h.rest)
        ELSE IF h.channels = None
        THEN Failed(self, "Err", "MandatoryHeaderIsAbsent", h.rest)
        ELSE IF h.channels[1] = <<>>
        THEN Failed(self, "Err", "NoRfxChannelsAnnounced", h.rest)
        ELSE [Failed([state |-> "DataMessages", context |-> h.context[1],
                      channels |-> h.channels[1]], "Ok", "", h.rest)
              EXCEPT !.headers = Some([context |-> h.context[1],
                                       channels |-> h.channels[1]])]

\* rectangles_processing::Region: the rectangles united so far and their
\* bounding box (extents).
Region_new == [extents |-> Rect(0, 0, 0, 0), rectangles |-> <<>>]

\* r and s share area.
Intersects(r, s) ==
    /\ Max(r.left, s.left) < Min(r.right, s.right)
    /\ Max(r.top, s.top) < Min(r.bottom, s.bottom)

\* The parts of r outside s: the band above s, the parts left and right of
\* s, the band below s.
Subtract(r, s) ==
    IF ~Intersects(r, s) THEN <<r>>
    ELSE LET yt == Max(r.top, s.top)
             yb == Min(r.bottom, s.bottom)
         IN  (IF s.top > r.top
              THEN <<Rect(r.left, r.top, r.right, s.top)>> ELSE <<>>)
             \o (IF s.left > r.left
                 THEN <<Rect(r.left, yt, s.left, yb)>> ELSE <<>>)
             \o (IF s.right < r.right
                 THEN <<Rect(s.right, yt, r.right, yb)>> ELSE <<>>)
             \o (IF s.bottom < r.bottom
                 THEN <<Rect(r.left, s.bottom, r.right, r.bottom)>> ELSE <<>>)

RECURSIVE SubtractEach(_, _)
SubtractEach(pieces, s) ==
    IF pieces = <<>> THEN <<>>
    ELSE Subtract(Head(pieces), s) \o SubtractEach(Tail(pieces), s)

RECURSIVE SubtractAll(_, _)
\* The parts of the rectangles pieces outside every rectangle of stored.
SubtractAll(pieces, stored) ==
    IF stored = <<>> THEN pieces
    ELSE SubtractAll(SubtractEach(pieces, Head(stored)), Tail(stored))

\* Mutant: the rectangle is stored whole, overlapping or not.
Region_union_rectangle_appends(region, r) ==
    [extents |->
        IF region.rectangles = <<>> THEN r
        ELSE Rect(Min(region.extents.left, r.left),
                  Min(region.extents.top, r.top),
                  Max(region.extents.right, r.right),
                  Max(region.extents.bottom, r.bottom)),
     rectangles |-> Append(region.rectangles, r)]

\* Region::union_rectangle: the extents grow to the bounding box and the
\* parts of r that no stored rectangle covers are stored.
Region_union_rectangle(region, r) ==
    [extents |->
        IF region.rectangles = <<>> THEN r
        ELSE Rect(Min(region.extents.left, r.left),
                  Min(region.extents.top, r.top),
                  Max(region.extents.right, r.right),
                  Max(region.extents.bottom, r.bottom)),
     rectangles |->
        region.rectangles \o SubtractAll(<<r>>, region.rectangles)]

\* Mutant: the right and bottom edges are not clipped to the channel.
ClipRectangle_unclipped_far_edge(r, destination, width, height) ==
    Rect(Min(Wrap16(destination.left + r.x), width),
         Min(Wrap16(destination.top + r.y), height),
         Wrap16(destination.left + r.x + r.width),
         Wrap16(destination.top + r.y + r.height))

\* clipping_rectangles, the closure mapping one RfxRectangle
ClipRectangle(r, destination, width, height) ==
    Rect(Min(Wrap16(destination.left + r.x), width),
         Min(Wrap16(destination.top + r.y), height),
         Min(Wrap16(destination.left + r.x + r.width), width),
         Min(Wrap16(destination.top + r.y + r.height), height))

\* Whether an addition of that closure overflows u16.
ClipOverflows(r, destination) ==
    \/ Overflows16(destination.left + r.x + r.width)
    \/ Overflows16(destination.top + r.y + r.height)

RECURSIVE UnionAll(_, _, _, _, _)
UnionAll(region, rectangles, destination, width, height) ==
    IF rectangles = <<>> THEN region
    ELSE UnionAll(Region_union_rectangle(region,
                      ClipRectangle(Head(rectangles), destination, width, height)),
                  Tail(rectangles), destination, width, height)

\* clipping_rectangles
clipping_rectangles(rectangles, destination, width, height) ==
    UnionAll(Region_new, rectangles, destination, width, height)

\* tiles_to_rectangles, the closure mapping one tile
TileRectangle(t, destination) ==
    Rect(Wrap16(destination.left + t.x * TILE_SIZE),
         Wrap16(destination.top + t.y * TILE_SIZE),
         Wrap16(destination.left + t.x * TILE_SIZE + TILE_SIZE),
         Wrap16(destination.top + t.y * TILE_SIZE + TILE_SIZE))

TileOverflows(t, destination) ==
    \/ Overflows16(destination.left + t.x * TILE_SIZE + TILE_SIZE)
    \/ Overflows16(destination.top + t.y * TILE_SIZE + TILE_SIZE)

\* map_tiles_data: quants[index] for the three components of every tile
\* panics when an index is not below quants.len().
QuantIndexInRange(t, quants) ==
    /\ t.y_quant_index < Len(quants)
    /\ t.cb_quant_index < Len(quants)
    /\ t.cr_quant_index < Len(quants)

map_tiles_data_panics(tiles, quants) ==
    \E k \in DOMAIN tiles : ~QuantIndexInRange(tiles[k], quants)

\* The part r and s share; no pixel when they share none.
Intersection(r, s) ==
    Rect(Max(r.left, s.left), Max(r.top, s.top),
         Min(r.right, s.right), Min(r.bottom, s.bottom))

\* Mutant: the tile is copied whole, whatever the clipping rectangles.
apply_tile_unclipped(clipping, update_rectangle) == <<update_rectangle>>

\* DecodedImage::apply_tile: the pixels of the image it writes, as
\* rectangles: the pixels of the tile's update rectangle that lie in a
\* clipping rectangle.
apply_tile(clipping, update_rectangle) ==
    SelectSeq([k \in DOMAIN clipping |->
                  Intersection(update_rectangle, clipping[k])],
              LAMBDA r : r.left < r.right /\ r.top < r.bottom)

RECURSIVE ApplyTiles(_, _, _, _, _)
\* process_data_messages, the loop over the tiles: the update rectangle of a
\* tile is computed when the loop reaches it, then the tile is decoded
\* (decode_tile fails on data that does not entropy-decode) and applied.
ApplyTiles(tiles, clipping, destination, overflow_checks, done) ==
    IF tiles = <<>> THEN [kind |-> "Ok", err |-> "", blits |-> done]
    ELSE LET t == Head(tiles)
         IN  IF TileOverflows(t, destination) /\ overflow_checks
             THEN [kind |-> "Panic", err |-> "overflow", blits |-> done]
             ELSE IF ~t.decodable
             THEN [kind |-> "Err", err |-> "RfxError", blits |-> done]
             ELSE ApplyTiles(Tail(tiles), clipping, destination,
                      overflow_checks,
                      Append(done, [x |-> t.x, y |-> t.y,
                                    update_rectangle |->
                                        TileRectangle(t, destination),
                                    painted |->
                                        apply_tile(clipping,
                                            TileRectangle(t, destination))]))

\* Mutant: an empty region is left empty.
region_rectangles_not_synthesized(rectangles, channel_list) == rectangles

\* process_data_messages, `if region.rectangles.is_empty()`: an empty region
\* becomes one rectangle spanning the first channel.
region_rectangles(rectangles, channel_list) ==
    IF rectangles = <<>>
    THEN <<[x |-> 0, y |-> 0, width |-> channel_list[1].width,
            height |-> channel_list[1].height]>>
    ELSE rectangles

\* Mutant: the engine stays in DataMessages whatever the operating mode.
after_frame_stays_in_data(self) == self

\* process_data_messages, `if self.context.flags.contains(IMAGE_MODE)`: in
\* image mode the next frame has to bring its headers again.
after_frame(self) ==
    IF "IMAGE_MODE" \in self.context.flags
    THEN [self EXCEPT !.state = "HeaderMessages"]
    ELSE self

\* DecodingContext::process_data_messages
process_data_messages(self, destination, input, overflow_checks) ==
    LET frame_begin == Parse(input, {"FrameBegin"})
        region == Parse(frame_begin.rest, {"Region"})
        tile_set == Parse(region.rest, {"TileSet"})
        frame_end == Parse(tile_set.rest, {"FrameEnd"})
        channel == self.channels[1]
        rectangles == region_rectangles(region.pdu.v, self.channels)
        clipping == clipping_rectangles(rectangles, destination,
                                        channel.width, channel.height)
        applied == ApplyTiles(tile_set.pdu.v.tiles, clipping.rectangles,
                              destination, overflow_checks, <<>>)
    IN  IF self.channels = <<>>
        THEN Failed(self, "Panic", "unwrap", input)
        ELSE IF ~frame_begin.ok
        THEN Failed(self, "Err", "RfxError", frame_begin.rest)
        ELSE IF ~region.ok THEN Failed(self, "Err", "RfxError", region.rest)
        ELSE IF ~tile_set.ok THEN Failed(self, "Err", "RfxError", tile_set.rest)
        ELSE IF ~frame_end.ok
        THEN Failed(self, "Err", "RfxError", frame_end.rest)
        ELSE IF overflow_checks
                /\ \E k \in DOMAIN rectangles :
                       ClipOverflows(rectangles[k], destination)
        THEN Failed(self, "Panic", "overflow", frame_end.rest)
        ELSE IF map_tiles_data_panics(tile_set.pdu.v.tiles, tile_set.pdu.v.quants)
        THEN [Failed(self, "Panic", "index", frame_end.rest)
              EXCEPT !.clipping = clipping.rectangles]
        ELSE IF applied.kind # "Ok"
        THEN [Failed(self, applied.kind, applied.err, frame_end.rest)
              EXCEPT !.clipping = clipping.rectangles,
                     !.blits = applied.blits]
        ELSE [self |-> after_frame(self),
              kind |-> "Ok", err |-> "", rest |-> frame_end.rest,
              headers |-> None, frame |-> frame_begin.pdu.v,
              damage |-> clipping.extents,
              clipping |-> clipping.rectangles, blits |-> applied.blits]

\* DecodingContext::decode: headers first while the state asks for them,
\* then one frame.
decode(self, destination, input, overflow_checks) ==
    IF self.state = "HeaderMessages"
    THEN LET h == process_headers(self, input)
         IN  IF h.kind # "Ok" THEN h
             ELSE [process_data_messages(h.self, destination, h.rest,
                                         overflow_checks)
                   EXCEPT !.headers = h.headers]
    ELSE process_data_messages(self, destination, input, overflow_checks)

\* One call of DecodingContext::decode.
Decode(destination, input, overflow_checks) ==
    \E r \in {decode([state |-> state, context |-> context,
                      channels |-> channels],
                     destination, input, overflow_checks)} :
        /\ call' = [destination |-> destination, input |-> input,
                    overflow_checks |-> overflow_checks]
        /\ state' = r.self.state
        /\ context' = r.self.context
        /\ channels' = r.self.channels
        /\ blits' = r.blits
        /\ ret' = [kind |-> r.kind, err |-> r.err,
                   consumed |-> Len(input) - Len(r.rest),
                   frame |-> r.frame, damage |-> r.damage,
                   clipping |-> r.clipping]
        /\ accepted' = IF IsSome(r.headers) THEN r.headers ELSE accepted
        /\ UNCHANGED outsideRfx

\* ---- inputs of the sequence engine
Channel(w, h) == [width |-> w, height |-> h]
ContextPdus ==
    {Pdu("Context", [flags |-> f, entropy_algorithm |-> "Rlgr1"]) :
        f \in {{}, {"IMAGE_MODE"}}}
\* The header blocks of the exhaustive header streams: one channel list that
\* is empty and one that is not.
ChannelLists == {<<>>, <<Channel(1024, 768)>>}
HeaderPdus ==
    ContextPdus
    \cup {Pdu("Channels", c) : c \in ChannelLists}
    \cup {Pdu("CodecVersions", <<>>)}

Tile(x, y, q, decodable) ==
    [x |-> x, y |-> y, y_quant_index |-> q, cb_quant_index |-> q,
     cr_quant_index |-> q, decodable |-> decodable]
TileSet(tiles) == Pdu("TileSet", [quants |-> <<"quant">>, tiles |-> tiles])
RfxRectangle(x, y, w, h) == [x |-> x, y |-> y, width |-> w, height |-> h]

Frame(index, rectangles, tiles) ==
    <<Pdu("FrameBegin", index), Pdu("Region", rectangles), TileSet(tiles),
      Pdu("FrameEnd", <<>>)>>

\* Every Sync + three headers, and no headers at all.
HeaderStreams ==
    {<<>>} \cup {<<Pdu("Sync", <<>>), a, b, c>> : a, b, c \in HeaderPdus}

\* The frames fed to the state machine: one good tile, a tile that fails to
\* decode after a good one, and a stream cut before the frame.
FewFrames ==
    {<<>>,
     Frame(0, <<>>, <<Tile(0, 0, 0, TRUE)>>),
     Frame(7, <<RfxRectangle(0, 0, 64, 64)>>,
           <<Tile(0, 0, 0, TRUE), Tile(1, 0, 0, FALSE)>>)}

\* Processing of whole streams: SpecRfx
DecodeStream ==
    \E h \in HeaderStreams, f \in FewFrames :
        Decode(Rect(0, 0, 0, 0), h \o f, TRUE)

\* ---- inputs for single frames: SpecRfxFrame
Headers(flags, channel_list) ==
    <<Pdu("Sync", <<>>), Pdu("CodecVersions", <<>>),
      Pdu("Channels", channel_list),
      Pdu("Context", [flags |-> flags, entropy_algorithm |-> "Rlgr1"])>>
GoodHeaderStreams ==
    {<<>>,
     Headers({}, <<Channel(1024, 768)>>),
     Headers({"IMAGE_MODE"}, <<Channel(64, 64), Channel(1024, 768)>>)}
Destinations ==
    {Rect(0, 0, 0, 0), Rect(64, 32, 128, 96), Rect(65500, 65500, 65535, 65535)}
RegionLists ==
    {<<>>,
     <<RfxRectangle(0, 0, 64, 64)>>,
     <<RfxRectangle(100, 100, 10, 10), RfxRectangle(0, 0, 5, 5)>>,
     <<RfxRectangle(0, 0, 64, 64), RfxRectangle(32, 32, 2000, 2000)>>,
     <<RfxRectangle(65535, 0, 1, 1)>>}
TileLists ==
    {<<Tile(0, 0, 0, TRUE), Tile(1, 1, 0, TRUE)>>,
     <<Tile(0, 0, 0, TRUE), Tile(20, 0, 0, TRUE)>>,
     <<Tile(0, 0, 0, TRUE), Tile(0, 1, 0, FALSE)>>,
     <<Tile(0, 0, 1, TRUE)>>,
     <<Tile(1024, 0, 0, TRUE)>>}

DecodeFrame ==
    \E h \in GoodHeaderStreams, d \in Destinations, r \in RegionLists,
       t \in TileLists, overflow_checks \in BOOLEAN :
        Decode(d, h \o Frame(0, r, t), overflow_checks)

\* DecodingContext::default
InitRfx ==
    /\ state = "HeaderMessages"
    /\ context = [flags |-> {}, entropy_algorithm |-> "Rlgr1"]
    /\ channels = <<>>
    /\ blits = <<>>
    /\ ret = [kind |-> "", err |-> "", consumed |-> 0, frame |-> 0,
              damage |-> Rect(0, 0, 0, 0), clipping |-> <<>>]
    /\ call = [destination |-> Rect(0, 0, 0, 0), input |-> <<>>,
               overflow_checks |-> FALSE]
    /\ accepted = None

NextRfx == DecodeStream

NextRfxFrame == DecodeFrame

\* ------------------------------------------------------ active-stage loop
\* Result<(), RdpError> of a processor, and a panic.
Success == [kind |-> "Ok", err |-> ""]
Failure(e) == [kind |-> "Err", err |-> e]
Panic == [kind |-> "Panic", err |-> ""]

DRDYNVC_CHANNEL_NAME == "drdynvc"
\* config.global_channel_name
global_channel_name == "GLOBAL"
\* Processor.static_channels: the channels joined in the connection sequence,
\* by id; here the DRDYNVC channel, the global channel and one more.
static_channels ==
    (1003 :> global_channel_name) @@ (1004 :> DRDYNVC_CHANNEL_NAME)
        @@ (1005 :> "rdpsnd")
\* Channel ids a Send-Data-Indication can carry: the joined ones and one that
\* was never joined.
InboundChannelIds == DOMAIN static_channels \cup {1006}

\* What the payload on the global channel decodes to in
\* ShareDataHeaderTransport::decode: a ShareDataPdu, a Share Control PDU that
\* is not Data, or nothing after the MCS header.
SharePdus ==
    {"SaveSessionInfo", "ServerSetErrorInfo(None)", "ServerSetErrorInfo(Error)",
     "OtherShareData", "NotShareData", "NoData"}

\* What RdpTransport::decode returns, with what the layers below will find.
InboundPdu(kind, mcs, channel_id, share, err, bytes_read) ==
    [kind |-> kind, mcs |-> mcs, channel_id |-> channel_id, share |-> share,
     err |-> err, bytes_read |-> bytes_read]
\* The bytes a null-length fast-path header took: the header byte and a one-
\* or two-byte length.
NullLengthBytesRead == {2, 3}
InboundPdus ==
    {InboundPdu("X224", mcs, 0, "", "", 0) :
        mcs \in {"DisconnectProviderUltimatum", "AttachUserConfirm",
                 "Malformed"}}
    \cup {InboundPdu("X224", "SendDataIndication", id, "", "", 0) :
            id \in InboundChannelIds \ {1003}}
    \cup {InboundPdu("X224", "SendDataIndication", 1003, share, "", 0) :
            share \in SharePdus}
    \cup {InboundPdu("FastPath", "", 0, "", "", 0)}
    \cup {InboundPdu("Err", "", 0, "", "NullLength", n) :
            n \in NullLengthBytesRead}
    \cup {InboundPdu("Err", "", 0, "", e, 0) :
            e \in {"InvalidActionCode", "IOError"}}

\* Mutant: any MCS PDU that decodes is taken for a Send-Data-Indication.
SendDataContextTransport_decode_accepts_any(mcs) ==
    IF mcs = "DisconnectProviderUltimatum"
    THEN Failure("UnexpectedDisconnection")
    ELSE IF mcs = "Malformed" THEN Failure("McsError")
    ELSE Success

\* SendDataContextTransport::decode
SendDataContextTransport_decode(mcs) ==
    IF mcs = "SendDataIndication" THEN Success
    ELSE IF mcs = "DisconnectProviderUltimatum"
    THEN Failure("UnexpectedDisconnection")
    ELSE IF mcs = "Malformed" THEN Failure("McsError")
    ELSE Failure("UnexpectedPdu")

\* Mutant: a ServerSetErrorInfo is an error whatever code it carries.
process_global_channel_pdu_none_is_error(share) ==
    IF share = "NoData" THEN Failure("StaticChannelNotConnected")
    ELSE IF share = "NotShareData" THEN Failure("UnexpectedPdu")
    ELSE IF share = "SaveSessionInfo" THEN Success
    ELSE IF share \in {"ServerSetErrorInfo(None)", "ServerSetErrorInfo(Error)"}
    THEN Failure("ServerError")
    ELSE Failure("UnexpectedPdu")

\* ShareDataHeaderTransport::decode and process_global_channel_pdu
process_global_channel_pdu(share) ==
    IF share = "NoData" THEN Failure("StaticChannelNotConnected")
    ELSE IF share = "NotShareData" THEN Failure("UnexpectedPdu")
    ELSE IF share \in {"SaveSessionInfo", "ServerSetErrorInfo(None)"}
    THEN Success
    ELSE IF share = "ServerSetErrorInfo(Error)" THEN Failure("ServerError")
    ELSE Failure("UnexpectedPdu")

\* The arm of the match in Processor::process a channel id selects.
Route(channel_id) ==
    IF channel_id \notin DOMAIN static_channels THEN "None"
    ELSE IF static_channels[channel_id] = DRDYNVC_CHANNEL_NAME THEN "drdynvc"
    ELSE IF static_channels[channel_id] = global_channel_name THEN "global"
    ELSE "other"

\* The PDUs Processor::process hands to process_dvc_message.
IsDvc(pdu) ==
    /\ pdu.kind = "X224"
    /\ pdu.mcs = "SendDataIndication"
    /\ Route(pdu.channel_id) = "drdynvc"

\* Processor::process, but for the DRDYNVC arm
Processor_process(pdu) ==
    LET decoded == SendDataContextTransport_decode(pdu.mcs)
    IN  IF decoded.kind = "Err" THEN decoded
        ELSE IF Route(pdu.channel_id) = "global"
        THEN process_global_channel_pdu(pdu.share)
        ELSE IF Route(pdu.channel_id) = "other"
        THEN Failure("UnexpectedChannel")
        ELSE Panic

\* Where process_inner goes on.
Continue == [exit |-> "Running", error |-> "", pc |-> "Bottom"]
Return(exit_, error_) == [exit |-> exit_, error |-> error_, pc |-> "Done"]

\* Mutant: a disconnection does not end the loop.
X224Arm_ignores_disconnection(res) ==
    IF res.kind = "Ok" THEN Continue
    ELSE IF res.kind = "Panic" THEN Return("Panic", "")
    ELSE IF res.err = "UnexpectedDisconnection" THEN Continue
    ELSE IF res.err = "UnexpectedChannel" THEN Return("Ok", "")
    ELSE Return("Err", res.err)

\* Mutant: data on an unwanted channel is returned as an error.
X224Arm_unexpected_channel_is_fatal(res) ==
    IF res.kind = "Ok" THEN Continue
    ELSE IF res.kind = "Panic" THEN Return("Panic", "")
    ELSE IF res.err = "UnexpectedDisconnection" THEN Return("Ok", "")
    ELSE Return("Err", res.err)

\* process_inner, the Ok(RdpPdu::X224(data)) arm after Processor::process
\* returned res: the two breaks end the loop and the function with Ok(()).
X224Arm(res) ==
    IF res.kind = "Ok" THEN Continue
    ELSE IF res.kind = "Panic" THEN Return("Panic", "")
    ELSE IF res.err \in {"UnexpectedDisconnection", "UnexpectedChannel"}
    THEN Return("Ok", "")
    ELSE Return("Err", res.err)

\* fast_path_processor.process(..)?
FastPathArm(res) ==
    IF res.kind = "Ok" THEN Continue ELSE Return("Err", res.err)

\* Mutant: a null-length packet is returned like any decoding error.
DecodeErrorArm_null_length_is_fatal(err_, read_exact) ==
    IF err_ = "NullLength" /\ read_exact.kind = "Ok"
    THEN Return("Err", "FastPathError")
    ELSE IF err_ = "NullLength" THEN Return("Err", read_exact.err)
    ELSE Return("Err", err_)

\* process_inner, the two Err arms: a null-length fast-path packet is dropped
\* after read_exact took bytes_read more bytes from the stream (read_exact is
\* what that read returned); any other error is returned.
DecodeErrorArm(err_, read_exact) ==
    IF err_ = "NullLength" /\ read_exact.kind = "Ok" THEN Continue
    ELSE IF err_ = "NullLength" THEN Return("Err", read_exact.err)
    ELSE Return("Err", err_)

\* Mutant: clear leaves the bytes in the buffer.
Vec_clear_keeps(v) == v
\* Vec::clear
Vec_clear(v) == <<>>

\* The i-th reply caused by inbound PDU k.
Reply(k, i) == [pdu |-> k, n |-> i]
Replies(k, n) == [i \in 1..n |-> Reply(k, i)]
\* Events on the stream: the read of inbound PDU k (what: its kind), the
\* extra read after a null-length packet, the write of a reply.
ReadEvent(k, pdu) ==
    [op |-> "read", pdu |-> k, n |-> 0,
     what |-> IF pdu.kind = "X224" THEN pdu.mcs ELSE pdu.kind]
SkipEvent(k, n) == [op |-> "read_exact", pdu |-> k, n |-> n, what |-> ""]
\* process_dvc_message, the DataFirst and Data arms:
\* stream.read_exact(&mut data_buff) for the data_size bytes of the PDU.
DvcReads(k, req) ==
    IF req.kind \in {"DataFirst", "Data"}
    THEN <<[op |-> "read_exact", pdu |-> k, n |-> Len(req.bytes),
            what |-> req.kind]>>
    ELSE <<>>
WriteEvent(reply) ==
    [op |-> "write", pdu |-> reply.pdu, n |-> reply.n, what |-> ""]
Writes(replies) == [i \in DOMAIN replies |-> WriteEvent(replies[i])]

Go(to) ==
    /\ exit' = to.exit
    /\ error' = to.error
    /\ pc' = to.pc

\* The sinks Processor::process can encode its replies into: it is declared
\* with the stream as the only sink, and process_inner calls it with the
\* output buffer as well.
X224Sinks == {"stream", "output_buffer"}

\* process_inner: output_buffer.clear(); rdp_transport.decode(&mut stream).
\* sink is the sink of the build, the same for every PDU.
ReadPdu(pdu, sink) ==
    /\ pc = "Top"
    /\ iteration < MaxActivePdus
    /\ iteration > 0 => sink = x224_sink
    /\ x224_sink' = sink
    /\ output_buffer' = Vec_clear(output_buffer)
    /\ iteration' = iteration + 1
    /\ wire' = Append(wire, ReadEvent(iteration + 1, pdu))
    /\ inbound' = pdu
    /\ pc' = "Decoded"
    /\ UNCHANGED <<exit, error, drdynvc_channel_id, processed, caused>>
    /\ UNCHANGED <<dvcVars, outsideSession>>

\* The X224 arm when Processor::process does not reach the DRDYNVC channel:
\* nothing is encoded.
X224 ==
    /\ pc = "Decoded"
    /\ inbound.kind = "X224"
    /\ ~IsDvc(inbound)
    /\ processed' = Processor_process(inbound)
    /\ Go(X224Arm(Processor_process(inbound)))
    /\ UNCHANGED <<output_buffer, x224_sink, drdynvc_channel_id, inbound,
                   iteration, caused, wire>>
    /\ UNCHANGED <<dvcVars, outsideSession>>

\* Mutant: the id of the DRDYNVC channel is not recorded.
drdynvc_channel_id_unassigned(old, channel_id) == old

\* Processor::process, Some(vc::DRDYNVC_CHANNEL_NAME):
\* self.drdynvc_channel_id = channel_id
drdynvc_channel_id_assigned(old, channel_id) == channel_id

\* The PDUs of the one dynamic channel the loop is fed.
DvcMessage ==
    \/ CapabilitiesRequest
    \/ \E name \in ChannelNames : CreateRequest(name, 1, "U8")
    \/ CloseRequest(1, "U8")
    \/ \E total \in 0..MaxDvcTotal, n \in 0..MaxDvcFrag :
          DataFirst(1, "U8", total, n)
    \/ \E n \in 0..MaxDvcFrag : Data(1, "U8", n)

\* The X224 arm when Processor::process reaches the DRDYNVC channel: the
\* channel id is remembered, process_dvc_message runs and its replies go to
\* the sink of Processor::process.
X224Drdynvc ==
    /\ pc = "Decoded"
    /\ IsDvc(inbound)
    /\ drdynvc_channel_id' =
          drdynvc_channel_id_assigned(drdynvc_channel_id, inbound.channel_id)
    /\ DvcMessage
    /\ \E res \in {IF result' = "Ok" THEN Success ELSE Failure(result')} :
          /\ processed' = res
          /\ Go(X224Arm(res))
    /\ \E replies \in {Replies(iteration, Len(output'))} :
          /\ caused' = caused \o replies
          /\ IF x224_sink = "stream"
             THEN /\ wire' = wire \o DvcReads(iteration, request')
                                \o Writes(replies)
                  /\ UNCHANGED output_buffer
             ELSE /\ output_buffer' = output_buffer \o replies
                  /\ wire' = wire \o DvcReads(iteration, request')
    /\ UNCHANGED <<x224_sink, inbound, iteration>>

\* The fast-path arm: the buffer is cleared once more and the fast-path
\* processor returns res, having put n replies into the buffer.
FastPath(res, n) ==
    /\ pc = "Decoded"
    /\ inbound.kind = "FastPath"
    /\ processed' = res
    /\ output_buffer' = Vec_clear(output_buffer) \o Replies(iteration, n)
    /\ caused' = caused \o Replies(iteration, n)
    /\ Go(FastPathArm(res))
    /\ UNCHANGED <<x224_sink, drdynvc_channel_id, inbound, iteration, wire>>
    /\ UNCHANGED <<dvcVars, outsideSession>>

\* The Err arms.
DecodeError(read_exact) ==
    /\ pc = "Decoded"
    /\ inbound.kind = "Err"
    /\ IF inbound.err = "NullLength"
       THEN /\ wire' = Append(wire, SkipEvent(iteration, inbound.bytes_read))
            /\ processed' = read_exact
       ELSE /\ read_exact = Success
            /\ processed' = Failure(inbound.err)
            /\ UNCHANGED wire
    /\ Go(DecodeErrorArm(inbound.err, read_exact))
    /\ UNCHANGED <<output_buffer, x224_sink, drdynvc_channel_id, inbound,
                   iteration, caused>>
    /\ UNCHANGED <<dvcVars, outsideSession>>

\* The bottom of the loop: a non-empty buffer is written and flushed.
Flush ==
    /\ pc = "Bottom"
    /\ wire' = IF output_buffer # <<>> THEN wire \o Writes(output_buffer)
               ELSE wire
    /\ pc' = "Top"
    /\ UNCHANGED <<exit, error, output_buffer, x224_sink, drdynvc_channel_id,
                   inbound, processed, iteration, caused>>
    /\ UNCHANGED <<dvcVars, outsideSession>>

\* process_active_stage: Processor::new and the locals of process_inner.
InitActive ==
    /\ pc = "Top"
    /\ exit = "Running"
    /\ error = ""
    /\ output_buffer = <<>>
    /\ x224_sink = "stream"
    /\ drdynvc_channel_id = 0
    /\ inbound = InboundPdu("", "", 0, "", "", 0)
    /\ processed = Success
    /\ iteration = 0
    /\ caused = <<>>
    /\ wire = <<>>

NextActive ==
    \/ \E pdu \in InboundPdus, sink \in X224Sinks : ReadPdu(pdu, sink)
    \/ X224
    \/ X224Drdynvc
    \/ \E res \in {Success, Failure("FastPathError")}, n \in 0..MaxReplies :
          FastPath(res, n)
    \/ \E read_exact \in {Success, Failure("IOError")} :
          DecodeError(read_exact)
    \/ Flush

\* ------------------------------------------------------------ outer framing
\* The payload of n bytes put into a frame.
Payload(n) == [i \in 1..n |-> (i * 37) % 256]
\* Bytes that can follow a frame on the stream.
Trailers == {<<>>, <<3, 0>>}
\* Header bytes of a fast-path PDU: the action in the two low bits is 0, the
\* bits above are free.
FastPathHeaderBytes == {0, 64, 128, 196}

\* The framing encoder for an X224 PDU: 0x03, reserved, the total length as a
\* big-endian u16, the payload.
EncodeX224(payload) ==
    LET length == 4 + Len(payload)
    IN  <<3, 0, length \div 256, length % 256>> \o payload

\* The framing encoder for a fast-path PDU: the header byte, the total length
\* in one byte, or in two with the top bit of the first set, the payload.
EncodeFastPath(header, payload) ==
    IF Len(payload) + 2 <= 127
    THEN <<header, Len(payload) + 2>> \o payload
    ELSE LET length == Len(payload) + 3
         IN  <<header, 128 + (length \div 256), length % 256>> \o payload

Encode(action, header, payload) ==
    IF action = "X224" THEN EncodeX224(payload)
    ELSE EncodeFastPath(header, payload)

\* Action::from_u8(header.get_bits(0..2))
Action_from_header(header) ==
    IF header % 4 = 0 THEN Some("FastPath")
    ELSE IF header % 4 = 3 THEN Some("X224")
    ELSE None

\* Mutant: the top bit of the first length byte is taken for part of the
\* length.
FastPathLength_keeps_top_bit(a, b) == a * 256 + b
\* The two-byte fast-path length: ((u16::from(a) & !0x80) << 8) + u16::from(b)
FastPathLength(a, b) == (a % 128) * 256 + b

\* What the parser found: the action, the total length, the bytes of the PDU,
\* the bytes of the header among them, and what is left on the stream.
Framed(action, length, bytes, begin, rest) ==
    [kind |-> "Ok", action |-> action, length |-> length, data |-> bytes,
     begin |-> begin, rest |-> rest]
NotFramed(kind) ==
    [kind |-> kind, action |-> "", length |-> 0, data |-> <<>>, begin |-> 0,
     rest |-> <<>>]

\* The rest of async_read_complete_pdu once the header of begin bytes gave the
\* length: data.resize(length, 0); stream.read_exact(&mut data[begin..])
ReadBody(stream, action, length, begin) ==
    IF length < begin THEN NotFramed("Panic")
    ELSE IF Len(stream) < length THEN NotFramed("IOError")
    ELSE Framed(action, length, SubSeq(stream, 1, length), begin,
                SubSeq(stream, length + 1, Len(stream)))

\* async_read_complete_pdu, with the classification of RdpPdu::from_buffer
ReadCompletePdu(stream) ==
    IF Len(stream) < 1 THEN NotFramed("IOError")
    ELSE IF Action_from_header(stream[1]) = None
    THEN NotFramed("InvalidActionCode")
    ELSE IF Action_from_header(stream[1]) = Some("X224")
    THEN IF Len(stream) < 4 THEN NotFramed("IOError")
         ELSE ReadBody(stream, "X224", stream[3] * 256 + stream[4], 4)
    ELSE IF Len(stream) < 2 THEN NotFramed("IOError")
    ELSE IF stream[2] >= 128
    THEN IF Len(stream) < 3 THEN NotFramed("IOError")
         ELSE ReadBody(stream, "FastPath",
                       FastPathLength(stream[2], stream[3]), 3)
    ELSE ReadBody(stream, "FastPath", stream[2], 2)

\* One PDU framed, followed by the bytes trailer, and parsed back.
Frame_round_trip(action, header, n, trailer) ==
    [action |-> action, payload |-> Payload(n), trailer |-> trailer,
     encoded |-> Encode(action, header, Payload(n)),
     decoded |-> ReadCompletePdu(Encode(action, header, Payload(n))
                                 \o trailer)]

\* An X224 PDU goes through the framing.
FrameX224(n, trailer) ==
    /\ framing.action = ""
    /\ framing' = Frame_round_trip("X224", 3, n, trailer)
    /\ UNCHANGED outsideFraming

\* A fast-path PDU goes through the framing.
FrameFastPath(header, n, trailer) ==
    /\ framing.action = ""
    /\ framing' = Frame_round_trip("FastPath", header, n, trailer)
    /\ UNCHANGED outsideFraming

InitFraming ==
    framing = [action |-> "", payload |-> <<>>, trailer |-> <<>>,
               encoded |-> <<>>, decoded |-> NotFramed("")]

NextFraming ==
    \/ \E n \in 0..MaxPayload, trailer \in Trailers : FrameX224(n, trailer)
    \/ \E header \in FastPathHeaderBytes, n \in 0..MaxPayload,
          trailer \in Trailers : FrameFastPath(header, n, trailer)

\* -------------------------------------------------------- one-PDU reader
\* First bytes of a stream: every value of the two low bits, with and without
\* bits above them.
FirstBytes == {0, 1, 2, 3, 128, 131}

\* A stream that starts with a header declaring the total length `length`,
\* for a fast-path PDU in one byte or (two_bytes) in two, and holds
\* MaxDeclared bytes after the header.
RawStream(first, two_bytes, length) ==
    (IF first % 4 = 3 THEN <<first, 0, length \div 256, length % 256>>
     ELSE IF two_bytes THEN <<first, 128 + (length \div 256), length % 256>>
     ELSE <<first, length>>)
    \o Payload(MaxDeclared)

\* async_read_complete_pdu(stream)
ReadRaw(first, two_bytes, length) ==
    /\ reading.stream = <<>>
    /\ reading' = [stream |-> RawStream(first, two_bytes, length),
                   ret |-> ReadCompletePdu(RawStream(first, two_bytes, length))]
    /\ UNCHANGED outsideReader

InitReader == reading = [stream |-> <<>>, ret |-> NotFramed("")]

NextReader ==
    \E first \in FirstBytes, two_bytes \in BOOLEAN, length \in 0..MaxDeclared :
        ReadRaw(first, two_bytes, length)

\* ------------------------------------------------ Send-Data-Context replies
\* ChannelIdentificators
ChannelIdentificators(initiator_id, channel_id) ==
    [initiator_id |-> initiator_id, channel_id |-> channel_id]

\* SendDataContextTransport::default
SendDataContextTransport_default ==
    [channel_ids |-> ChannelIdentificators(0, 0)]

\* Mutant: the decoded ids are not stored.
set_decoded_context_forgets(transport, channel_ids) == transport

\* SendDataContextTransport::set_channel_ids
set_channel_ids(transport, channel_ids) ==
    [transport EXCEPT !.channel_ids = channel_ids]

\* SendDataContextTransport::set_decoded_context
set_decoded_context(transport, channel_ids) ==
    set_channel_ids(transport, channel_ids)

\* SendDataContextTransport::encode: the MCS PDU the payload is sent in
SendDataContextTransport_encode(transport, payload) ==
    [mcs |-> "SendDataRequest",
     channel_id |-> transport.channel_ids.channel_id,
     initiator_id |-> transport.channel_ids.initiator_id,
     pdu_length |-> Len(payload)]

\* Processor.user_id
user_id == 1007

\* Processor::send(stream, channel_name, message): what it returns and the
\* MCS PDU it sends the message in.
Processor_send(channel_name, message) ==
    IF channel_name \notin DOMAIN channel_map
    THEN [res |-> Failure("AccessToNonExistingChannelName"), sent |-> None]
    ELSE IF channel_map[channel_name] \notin DOMAIN dynamic_channels
    THEN [res |-> Failure("AccessToNonExistingChannel"), sent |-> None]
    ELSE [res |-> Success,
          sent |-> Some(SendDataContextTransport_encode(
                      set_channel_ids(SendDataContextTransport_default,
                          ChannelIdentificators(user_id, drdynvc_channel_id)),
                      message))]

\* The ids of the static channels named DRDYNVC.
DrdynvcIds ==
    {id \in DOMAIN static_channels :
        static_channels[id] = DRDYNVC_CHANNEL_NAME}
\* Initiators a Send-Data-Indication can carry.
InitiatorIds == {0, 1002, 1007}
\* The payloads process_dvc_message hands to the transport for one PDU.
ReplyPayloads ==
    {<<>>}
    \cup {<<Payload(n)>> : n \in 0..MaxEnvelopePayload}
    \cup {<<Payload(n), Payload(m)>> : n, m \in 0..MaxEnvelopePayload}

\* Processor::process on a Send-Data-Indication of the DRDYNVC channel: the
\* transport decodes the ids, keeps them, and each reply of
\* process_dvc_message is encoded through it.
ProcessIndication(initiator_id, channel_id, payloads) ==
    /\ envelope.calls < MaxEnvelopeCalls
    /\ \E transport \in
            {set_decoded_context(SendDataContextTransport_default,
                 ChannelIdentificators(initiator_id, channel_id))} :
          envelope' =
              [calls |-> envelope.calls + 1,
               inbound |-> ChannelIdentificators(initiator_id, channel_id),
               payloads |-> payloads,
               sent |-> [k \in DOMAIN payloads |->
                            SendDataContextTransport_encode(transport,
                                                            payloads[k])]]
    /\ UNCHANGED outsideEnvelope

InitEnvelope ==
    envelope = [calls |-> 0, inbound |-> ChannelIdentificators(0, 0),
                payloads |-> <<>>, sent |-> <<>>]

NextEnvelope ==
    \E initiator_id \in InitiatorIds, channel_id \in DrdynvcIds,
       payloads \in ReplyPayloads :
        ProcessIndication(initiator_id, channel_id, payloads)

\* ------------------------------------------- two channels, interleaved
\* The k-th byte addressed to channel id.
LaneByte(id, k) == id * 100 + k
LaneBytes(id, from, n) == [k \in 1..n |-> LaneByte(id, from + k)]

\* The DataFirst and Data arms of process_dvc_message for an open channel: r
\* is what the reassembler of channel id made of the bytes.
LaneData(id, bytes, r) ==
    /\ lane_pdus < MaxLanePdus
    /\ lane_pdus' = lane_pdus + 1
    /\ fed' = [fed EXCEPT ![id] = @ + Len(bytes)]
    /\ lanes' = Channels_with(lanes, id, [lanes[id] EXCEPT !.data = r.self])
    /\ lane_call' = [id |-> id, bytes |-> bytes, ret |-> r.ret]
    /\ UNCHANGED outsideLanes

\* dvc::ServerPdu::DataFirst for channel id
LaneDataFirst(id, total, n) ==
    \E bytes \in {LaneBytes(id, fed[id], n)} :
        LaneData(id, bytes,
                 CD_process_data_first_pdu(lanes[id].data, total, bytes))

\* dvc::ServerPdu::Data for channel id
LaneDataNext(id, n) ==
    \E bytes \in {LaneBytes(id, fed[id], n)} :
        LaneData(id, bytes, CD_process_data_pdu(lanes[id].data, bytes))

\* Both channels were created (display control, ids 1 and 2) and are idle.
InitLanes ==
    /\ lanes = [id \in ChannelIds |->
                   DynamicChannel_new(Display_Handler_new, id, "U8")]
    /\ fed = [id \in ChannelIds |-> 0]
    /\ lane_call = [id |-> 0, bytes |-> <<>>, ret |-> None]
    /\ lane_pdus = 0

NextLanes ==
    \/ \E id \in ChannelIds, total \in 0..MaxLaneTotal, n \in 1..MaxLaneFrag :
          LaneDataFirst(id, total, n)
    \/ \E id \in ChannelIds, n \in 1..MaxLaneFrag : LaneDataNext(id, n)

\* ------------------------------------------- writes through the clones
\* The threads that write PDUs through a clone: the receive loop (its reply
\* buffer) and the input thread (input PDUs).
Writers == {"receive", "input"}

NotSending(pdu) == [at |-> "idle", pdu |-> pdu, left |-> 0]

\* stream.write_all(buf) of a PDU of n bytes begins: write_all calls write
\* until the whole buffer is taken.
WriteAll(t, n) ==
    /\ sending[t].at = "idle"
    /\ sending[t].pdu < MaxWirePdus
    /\ sending' = [sending EXCEPT ![t] =
                      [at |-> "lock", pdu |-> sending[t].pdu + 1, left |-> n]]
    /\ UNCHANGED <<writer_lock, underlying>>
    /\ UNCHANGED outsideWire

\* CloneableStream::write: get_ref(&mut self.writer) takes the mutex.
WireGetRef(t) ==
    /\ sending[t].at = "lock"
    /\ writer_lock = "free"
    /\ writer_lock' = t
    /\ sending' = [sending EXCEPT ![t].at = "inside"]
    /\ UNCHANGED underlying
    /\ UNCHANGED outsideWire

\* CloneableStream::write: obj.write(buf) takes taken of the bytes left (a
\* write may take fewer than it is given) and returns; the guard is dropped.
\* write_all calls write again for what is left.
WireWrite(t, taken) ==
    /\ sending[t].at = "inside"
    /\ taken <= sending[t].left
    /\ underlying' =
          underlying \o [k \in 1..taken |-> <<t, sending[t].pdu>>]
    /\ writer_lock' = "free"
    /\ sending' = [sending EXCEPT ![t] =
                      IF taken = sending[t].left
                      THEN NotSending(sending[t].pdu)
                      ELSE [@ EXCEPT !.at = "lock", !.left = @ - taken]]
    /\ UNCHANGED outsideWire

InitWire ==
    /\ sending = [t \in Writers |-> NotSending(0)]
    /\ writer_lock = "free"
    /\ underlying = <<>>

NextWire ==
    \/ \E t \in Writers, n \in 1..MaxWireLen : WriteAll(t, n)
    \/ \E t \in Writers : WireGetRef(t)
    \/ \E t \in Writers, taken \in 1..MaxWireLen : WireWrite(t, taken)

\* ------------------------------------------------------------------ Region
\* Rectangles united into the Region: overlapping, nested, adjacent, apart,
\* crossing and empty ones.
RegionInputs ==
    {Rect(0, 0, 2, 2), Rect(1, 1, 3, 3), Rect(0, 0, 4, 4), Rect(2, 0, 4, 2),
     Rect(1, 0, 2, 4), Rect(0, 1, 4, 2), Rect(3, 3, 4, 4), Rect(2, 2, 2, 3)}

\* region.union_rectangle(r)
UnionRectangle(r) ==
    /\ Len(inserted) < MaxInserts
    /\ united' = Region_union_rectangle(united, r)
    /\ inserted' = Append(inserted, r)
    /\ UNCHANGED outsideRegion

InitRegion ==
    /\ united = Region_new
    /\ inserted = <<>>

NextRegion == \E r \in RegionInputs : UnionRectangle(r)

\* ------------------------------------------------------ graphics handler
\* The messages one graphics handler is given: those of the dynamic channel
\* and some with several PDUs for the observer.
GfxObserverMessages ==
    GfxMessages
    \cup {GfxMessage(TRUE, <<GfxPdu("Other", 1), GfxPdu("EndFrame", 7),
                             GfxPdu("Other", 2)>>),
          GfxMessage(TRUE, <<GfxPdu("Other", 2), GfxPdu("Other", 1)>>),
          GfxMessage(TRUE, <<GfxPdu("Other", 1), GfxPdu("Malformed", 0),
                             GfxPdu("Other", 2)>>)}

\* handler.process_complete_data(msg) on a graphics handler; whether it has
\* an observer is settled when it is built, before the first message.
ProcessCompleteData(msg, observer) ==
    /\ gfx_calls < MaxGfxCalls
    /\ gfx_calls > 0 => observer = gfx.observer
    /\ \E h \in {Gfx_process_complete_data(
                    IF gfx_calls = 0 THEN Gfx_Handler_new(observer) ELSE gfx,
                    msg)} :
          /\ gfx' = h.handler
          /\ gfx_call' = [msg |-> msg, err |-> h.err, reply |-> h.reply,
                          sent |-> h.sent]
    /\ gfx_calls' = gfx_calls + 1
    /\ UNCHANGED outsideGfx

InitGfx ==
    /\ gfx = Gfx_Handler_new(FALSE)
    /\ gfx_call = [msg |-> GfxMessage(TRUE, <<>>), err |-> FALSE,
                   reply |-> None, sent |-> <<>>]
    /\ gfx_calls = 0

NextGfx ==
    \E msg \in GfxObserverMessages, observer \in BOOLEAN :
        ProcessCompleteData(msg, observer)

\* ------------------------------------------------------- CloneableStream
\* The threads that hold a clone: the spawned receive loop (process_inner on
\* stream2), the input thread (handle_input_events on stream.clone()) and
\* the thread of the event loop, which keeps the original.
Threads == {"receive", "input", "event_loop"}

\* The operations of the stream: impl Read and impl Write.
StreamOps == {"read", "write", "flush"}

\* The two Inner of CloneableStream::new, one mutex each.
Mutexes == {"reader", "writer"}

\* Mutant: every operation goes through the same Inner.
Inner_of_shared(op) == "reader"

\* The Inner an operation passes to get_ref: self.reader in read, self.writer
\* in write and in flush.
Inner_of(op) == IF op = "read" THEN "reader" ELSE "writer"

NotCalling == [at |-> "idle", op |-> ""]

\* A thread calls read, write or flush on its clone.
StreamCall(t, op) ==
    /\ calls[t].at = "idle"
    /\ calls' = [calls EXCEPT ![t] = [at |-> "lock", op |-> op]]
    /\ UNCHANGED <<locked, unread>>
    /\ UNCHANGED outsideStream

\* get_ref: obj.locked.lock() returns once the mutex is free; the guard lives
\* to the end of the operation.
StreamGetRef(t) ==
    /\ calls[t].at = "lock"
    /\ locked[Inner_of(calls[t].op)] = "free"
    /\ locked' = [locked EXCEPT ![Inner_of(calls[t].op)] = t]
    /\ calls' = [calls EXCEPT ![t].at = "inside"]
    /\ UNCHANGED unread
    /\ UNCHANGED outsideStream

\* obj.read(buf) returns: a blocking read returns once the stream holds a
\* byte; the guard is dropped.
StreamReadReturns(t) ==
    /\ calls[t] = [at |-> "inside", op |-> "read"]
    /\ unread > 0
    /\ unread' = unread - 1
    /\ locked' = [locked EXCEPT ![Inner_of("read")] = "free"]
    /\ calls' = [calls EXCEPT ![t] = NotCalling]
    /\ UNCHANGED outsideStream

\* obj.write(buf) or obj.flush() returns; the guard is dropped.
StreamWriteReturns(t) ==
    /\ calls[t].at = "inside"
    /\ calls[t].op \in {"write", "flush"}
    /\ locked' = [locked EXCEPT ![Inner_of(calls[t].op)] = "free"]
    /\ calls' = [calls EXCEPT ![t] = NotCalling]
    /\ UNCHANGED unread
    /\ UNCHANGED outsideStream

\* The server sends a byte.
StreamArrives ==
    /\ unread < MaxUnread
    /\ unread' = unread + 1
    /\ UNCHANGED <<locked, calls>>
    /\ UNCHANGED outsideStream

InitStream ==
    /\ locked = [m \in Mutexes |-> "free"]
    /\ calls = [t \in Threads |-> NotCalling]
    /\ unread = 0

NextStream ==
    \/ \E t \in Threads, op \in StreamOps : StreamCall(t, op)
    \/ \E t \in Threads : StreamGetRef(t)
    \/ \E t \in Threads : StreamReadReturns(t)
    \/ \E t \in Threads : StreamWriteReturns(t)
    \/ StreamArrives

\* ------------------------------------------------------------ main, run
NotReturned == [kind |-> "NotReturned", err |-> ""]

\* main, `let exit_code = match run(config)`
ExitCode(res) ==
    IF res.kind = "Ok" THEN "OK"
    ELSE IF res.err = "IOError(UnexpectedEof)" THEN "NOHOST"
    ELSE IF res.err = "IOError" THEN "IOERR"
    ELSE IF res.err = "ConnectionError" THEN "NOHOST"
    ELSE "PROTOCOL"

\* What process_auth and process_connection_sequence together return to run.
ConnectionResults ==
    {Success} \cup {Failure(e) : e \in {"IOError", "IOError(UnexpectedEof)",
                                        "NegotiationError"}}

\* What one iteration of process_inner meets on an open stream: the error of
\* rdp_transport.decode, "" if it decoded a PDU, and what processing the PDU
\* returned.
LoopStep(decode_err, processed_) ==
    [decode_err |-> decode_err, processed |-> processed_]
LoopSteps ==
    {LoopStep("", res) :
        res \in {Success} \cup
                {Failure(e) : e \in {"UnexpectedDisconnection",
                                     "UnexpectedChannel", "McsError",
                                     "IOError"}}}
    \cup {LoopStep(e, Success) :
            e \in {"InvalidActionCode", "IOError", "NullLength"}}

\* RdpPdu::from_buffer on a closed stream: stream.read_u8()? finds no byte.
ClosedStep == LoopStep("IOError(UnexpectedEof)", Success)

\* Where one iteration of process_inner leaves the loop.
LoopArm(step) ==
    IF step.decode_err # "" THEN DecodeErrorArm(step.decode_err, Success)
    ELSE X224Arm(step.processed)

\* run: TcpStream::connect(addr).map_err(RdpError::ConnectionError)?
\* build is the build of the client, settled before it runs.
MainConnect(connected, build) ==
    /\ run_at = "connect"
    /\ gui' = build
    /\ IF connected
       THEN /\ run_at' = "connection"
            /\ UNCHANGED run_result
       ELSE /\ run_at' = "returned"
            /\ run_result' = Failure("ConnectionError")
    /\ UNCHANGED <<closed, reads, loop_result, exit_code>>
    /\ UNCHANGED outsideMain

\* run: process_auth(..)? and process_connection_sequence(..)?
MainConnectionSequence(res) ==
    /\ run_at = "connection"
    /\ IF res.kind = "Ok"
       THEN /\ run_at' = "active"
            /\ UNCHANGED run_result
       ELSE /\ run_at' = "returned"
            /\ run_result' = res
    /\ UNCHANGED <<gui, closed, reads, loop_result, exit_code>>
    /\ UNCHANGED outsideMain

\* The peer closes the stream during the active stage.
MainStreamClosed ==
    /\ run_at = "active"
    /\ ~closed
    /\ closed' = TRUE
    /\ UNCHANGED <<run_at, gui, reads, loop_result, run_result, exit_code>>
    /\ UNCHANGED outsideMain

\* One iteration of process_inner. Without the gui feature
\* process_active_stage returns what process_inner returns and run passes it
\* on; with it process_inner runs in a spawned thread that logs its result,
\* and process_active_stage is in launch_gui.
MainLoop(step) ==
    /\ run_at = "active"
    /\ reads < MaxMainReads
    /\ closed => step = ClosedStep
    /\ reads' = reads + 1
    /\ \E to \in {LoopArm(step)} :
          IF to.pc = "Done"
          THEN /\ loop_result' = [kind |-> to.exit, err |-> to.error]
               /\ IF gui
                  THEN /\ run_at' = "event_loop"
                       /\ UNCHANGED run_result
                  ELSE /\ run_at' = "returned"
                       /\ run_result' = [kind |-> to.exit, err |-> to.error]
          ELSE UNCHANGED <<run_at, loop_result, run_result>>
    /\ UNCHANGED <<gui, closed, exit_code>>
    /\ UNCHANGED outsideMain

\* main: std::process::exit(exit_code)
MainExit ==
    /\ run_at = "returned"
    /\ exit_code' = ExitCode(run_result)
    /\ run_at' = "exited"
    /\ UNCHANGED <<gui, closed, reads, loop_result, run_result>>
    /\ UNCHANGED outsideMain

InitMain ==
    /\ run_at = "connect"
    /\ gui = FALSE
    /\ closed = FALSE
    /\ reads = 0
    /\ loop_result = NotReturned
    /\ run_result = NotReturned
    /\ exit_code = ""

NextMain ==
    \/ \E connected \in BOOLEAN, build \in BOOLEAN :
          MainConnect(connected, build)
    \/ \E res \in ConnectionResults : MainConnectionSequence(res)
    \/ MainStreamClosed
    \/ \E step \in LoopSteps \cup {ClosedStep} : MainLoop(step)
    \/ MainExit

Init ==
    /\ InitReasm
    /\ InitDvc
    /\ InitRfx
    /\ InitActive
    /\ InitFraming
    /\ InitRegion
    /\ InitGfx
    /\ InitStream
    /\ InitMain
    /\ InitReader
    /\ InitEnvelope
    /\ InitLanes
    /\ InitWire

SpecReasm == Init /\ [][NextReasm]_vars

SpecDvc == Init /\ [][NextDvc]_vars

SpecRfx == Init /\ [][NextRfx]_vars

SpecRfxFrame == Init /\ [][NextRfxFrame]_vars

SpecActive == Init /\ [][NextActive]_vars

SpecFraming == Init /\ [][NextFraming]_vars

SpecRegion == Init /\ [][NextRegion]_vars

SpecGfx == Init /\ [][NextGfx]_vars

SpecStream == Init /\ [][NextStream]_vars

SpecMain == Init /\ [][NextMain]_vars

SpecReader == Init /\ [][NextReader]_vars

SpecEnvelope == Init /\ [][NextEnvelope]_vars

SpecLanes == Init /\ [][NextLanes]_vars

SpecWire == Init /\ [][NextWire]_vars

\* ------------------------------------------------- claims: DVC reassembly

\* C1: after any sequence of process_data_first_pdu / process_data_pdu calls
\* the reassembler is idle (total_size = 0 and empty buffer) or holds fewer
\* bytes than the announced total (buffer.len() < total_size).
C1_IdleOrReassembling ==
    IsIdle(data) \/ Len(data.data) < data.total_size

\* tr[i] is a DataFirst that starts a fragmented message and tr[i+1..j] are
\* Data PDUs none of which, before tr[j], has brought the running length up
\* to the announced total.
FragmentRun(tr, i, j) ==
    /\ i < j
    /\ tr[i].kind = "DataFirst"
    /\ \A k \in (i + 1)..j : tr[k].kind = "Data"
    /\ \A k \in (i + 1)..(j - 1) : SumLens(tr, i, k) < tr[i].total

\* C2: DataFirst(total, b0) with len(b0) < total followed by Data fragments
\* b1..bn whose lengths first add up to total at bn: the handler is invoked
\* for none of b0..b(n-1) and exactly once at bn, with b0 ++ b1 ++ ... ++ bn.
C2_FragmentedDeliveredOnce ==
    \A i \in 1..Len(trace) :
        LET j == Len(trace)
        IN  ( /\ FragmentRun(trace, i, j)
              /\ Len(trace[i].bytes) < trace[i].total
              /\ SumLens(trace, i, j) = trace[i].total )
            => /\ \A k \in i..(j - 1) : trace[k].handled = None
               /\ trace[j].handled = Some(Concat(trace, i, j))

\* A new (idle) channel got DataFirst(3, 1 byte), Data(1 byte), Data(1 byte)
\* and the handler was given the three bytes in arrival order.
C2_Witness ==
    /\ Len(trace) = 3
    /\ trace[1].kind = "DataFirst" /\ trace[1].total = 3
    /\ trace[1].bytes = <<1>>
    /\ trace[2].kind = "Data" /\ trace[2].bytes = <<2>>
    /\ trace[3].kind = "Data" /\ trace[3].bytes = <<3>>
    /\ trace[1].handled = None /\ trace[2].handled = None
    /\ trace[3].handled = Some(<<1, 2, 3>>)

\* C3: when a Data fragment brings the accumulated length above the total the
\* DataFirst announced, the handler is not invoked, the call returns Ok(None)
\* and the reassembler is idle again.
C3_OverrunResets ==
    \A i \in 1..Len(trace) :
        LET j == Len(trace)
        IN  ( /\ FragmentRun(trace, i, j)
              /\ Len(trace[i].bytes) # trace[i].total
              /\ SumLens(trace, i, j) > trace[i].total )
            => /\ trace[j].handled = None
               /\ trace[j].ret = "OkNone"
               /\ IsIdle(data)

\* DataFirst(2, 1 byte) then Data(2 bytes): 3 > 2, nothing delivered, idle.
C3_Witness ==
    /\ Len(trace) = 2
    /\ trace[1].kind = "DataFirst" /\ trace[1].total = 2
    /\ trace[1].bytes = <<1>>
    /\ trace[2].kind = "Data" /\ trace[2].bytes = <<2, 3>>
    /\ trace[2].handled = None
    /\ IsIdle(data)

\* ------------------------------------------------ claims: DVC processor

\* The names create_dvc has a handler for.
KnownNames == {RDP8_GRAPHICS_PIPELINE_NAME, RDP8_DISPLAY_PIPELINE_NAME}

\* The CreateResponse PDUs among the PDUs out.
CreateResponses(out) ==
    {k \in DOMAIN out : out[k].pdu = "CreateResponse"}

\* The reply to a CreateRequest req: one CreateResponse, for the requested
\* id, OK exactly for a known name and NO_LISTENER otherwise.
CreateAnswered(req, out) ==
    /\ Cardinality(CreateResponses(out)) = 1
    /\ \A k \in CreateResponses(out) :
          /\ out[k].channel_id = req.channel_id
          /\ out[k].status = "OK" <=> req.channel_name \in KnownNames
          /\ out[k].status = "NO_LISTENER" <=> req.channel_name \notin KnownNames

\* C10 as stated: after a CreateRequest{name, id} there is exactly one
\* CreateResponse for id, OK iff name is known, the call returned Ok, and a
\* dynamic channel with that id exists iff the status was OK.
C10_ChannelExistsIffStatusOk ==
    request.kind = "CreateRequest" =>
        /\ CreateAnswered(request, output)
        /\ result = "Ok"
        /\ request.channel_id \in DOMAIN dynamic_channels
              <=> request.channel_name \in KnownNames

\* C10 (amended): on a CreateRequest{name, id} the client replies with exactly
\* one CreateResponse for id, OK iff name is known and NO_LISTENER otherwise,
\* and returns Ok; for a known name the table afterwards holds a new channel
\* for id; for an unknown name dynamic_channels and channel_map are unchanged
\* (so a channel with that id exists afterwards iff the status was OK or one
\* existed before).
C10_CreateReply ==
    [][ (request'.kind = "CreateRequest" /\ rx' # rx) =>
          LET id == request'.channel_id
              known == request'.channel_name \in KnownNames
          IN  /\ CreateAnswered(request', output')
              /\ result' = "Ok"
              /\ id \in DOMAIN dynamic_channels'
                    <=> (known \/ id \in DOMAIN dynamic_channels)
              /\ known =>
                    /\ dynamic_channels'[id].channel_id = id
                    /\ IsIdle(dynamic_channels'[id].data)
                    /\ channel_map'[request'.channel_name] = id
              /\ ~known =>
                    /\ dynamic_channels' = dynamic_channels
                    /\ channel_map' = channel_map
      ]_vars

\* A CreateRequest with an unknown name for an id that is already open was
\* answered NO_LISTENER, and the earlier channel is still there.
C10_Witness ==
    /\ request.kind = "CreateRequest"
    /\ request.channel_name \notin KnownNames
    /\ request.channel_id \in DOMAIN dynamic_channels
    /\ Len(output) = 1
    /\ output[1].pdu = "CreateResponse"
    /\ output[1].status = "NO_LISTENER"
    /\ result = "Ok"

\* --------------------------------------------- claims: RFX sequence engine

\* C4: whenever the engine is in DataMessages, and whenever it has processed
\* a frame, its context and its non-empty channel list are the ones of the
\* last headers process_headers accepted.
C4_HeadersBeforeData ==
    (state = "DataMessages" \/ ret.kind = "Ok" \/ blits # <<>>) =>
        /\ channels # <<>>
        /\ IsSome(accepted)
        /\ context = accepted[1].context
        /\ channels = accepted[1].channels

\* A frame was decoded and applied in DataMessages.
C4_Witness ==
    /\ state = "DataMessages"
    /\ ret.kind = "Ok"
    /\ blits # <<>>
    /\ channels = <<Channel(1024, 768)>>

\* input opens with Sync and three header blocks
SyncAndThreeHeaders(input) ==
    /\ Len(input) >= 4
    /\ input[1].type = "Sync"
    /\ \A k \in 2..4 : input[k].type \in HeaderTypes

\* the payload of the last header block of that type among the three
LastHeader(input, type) ==
    input[CHOOSE k \in 2..4 :
            /\ input[k].type = type
            /\ \A m \in (k + 1)..4 : input[m].type # type].v

HasHeader(input, type) == \E k \in 2..4 : input[k].type = type

\* C5: in HeaderMessages, a stream of Sync and three header blocks that lacks
\* Context or lacks Channels fails with MandatoryHeaderIsAbsent after the
\* four blocks, and state, context and channels stay as they were; with both
\* present, in any order, and a non-empty channel list, they are stored.
C5_MandatoryHeaders ==
    [][ (state = "HeaderMessages" /\ SyncAndThreeHeaders(call'.input)) =>
          /\ (~HasHeader(call'.input, "Context")
                 \/ ~HasHeader(call'.input, "Channels")) =>
                /\ ret'.kind = "Err"
                /\ ret'.err = "MandatoryHeaderIsAbsent"
                /\ ret'.consumed = 4
                /\ state' = "HeaderMessages"
                /\ context' = context
                /\ channels' = channels
          /\ (/\ HasHeader(call'.input, "Context")
              /\ HasHeader(call'.input, "Channels")
              /\ LastHeader(call'.input, "Channels") # <<>>) =>
                /\ ret'.err # "MandatoryHeaderIsAbsent"
                /\ ret'.consumed >= 4
                /\ context' = LastHeader(call'.input, "Context")
                /\ channels' = LastHeader(call'.input, "Channels")
      ]_vars

\* With a context and channels stored by an earlier call, headers without a
\* Context block were refused and the stored ones are still there.
C5_Witness ==
    /\ SyncAndThreeHeaders(call.input)
    /\ ~HasHeader(call.input, "Context")
    /\ HasHeader(call.input, "Channels")
    /\ ret.err = "MandatoryHeaderIsAbsent"
    /\ state = "HeaderMessages"
    /\ channels # <<>>
    /\ "IMAGE_MODE" \in context.flags

\* The smallest rectangle holding every rectangle of the sequence rs.
BoundingBox(rs) ==
    LET ks == DOMAIN rs
    IN  Rect(CHOOSE v \in {rs[k].left : k \in ks} :
                 \A k \in ks : v <= rs[k].left,
             CHOOSE v \in {rs[k].top : k \in ks} :
                 \A k \in ks : v <= rs[k].top,
             CHOOSE v \in {rs[k].right : k \in ks} :
                 \A k \in ks : v >= rs[k].right,
             CHOOSE v \in {rs[k].bottom : k \in ks} :
                 \A k \in ks : v >= rs[k].bottom)

\* r lies in [0, 0, w, h]
Within(r, w, h) ==
    /\ 0 <= r.left /\ r.left <= w
    /\ 0 <= r.right /\ r.right <= w
    /\ 0 <= r.top /\ r.top <= h
    /\ 0 <= r.bottom /\ r.bottom <= h

\* C6: the damage rectangle of an accepted frame lies in the bounds
\* [0, 0, W, H] of the first announced channel and is the bounding box of
\* the clipping rectangles.
C6_DamageWithinChannel ==
    ret.kind = "Ok" =>
        /\ Within(ret.damage, channels[1].width, channels[1].height)
        /\ ret.clipping # <<>>
        /\ ret.damage = BoundingBox(ret.clipping)

\* A frame at destination (64, 32) whose second region rectangle reaches
\* beyond the 1024x768 channel: the damage ends at the channel's edge.
C6_Witness ==
    /\ ret.kind = "Ok"
    /\ call.destination = Rect(64, 32, 128, 96)
    /\ Len(ret.clipping) >= 2
    /\ channels = <<Channel(1024, 768)>>
    /\ ret.damage = Rect(64, 32, 1024, 768)

\* The Region block of the frame the last call decoded.
RegionOfCall == call.input[ret.consumed - 2]

\* C7: for a frame whose Region carries no rectangle, at destination origin
\* (0, 0), the one clipping rectangle and the damage are (0, 0, W, H) of the
\* first announced channel, and the state afterwards is DataMessages unless
\* the context has IMAGE_MODE.
C7_EmptyRegionSpansChannel ==
    ( /\ ret.kind = "Ok"
      /\ RegionOfCall.type = "Region" /\ RegionOfCall.v = <<>>
      /\ call.destination.left = 0 /\ call.destination.top = 0 )
    => /\ ret.clipping
            = <<Rect(0, 0, channels[1].width, channels[1].height)>>
       /\ ret.damage = Rect(0, 0, channels[1].width, channels[1].height)
       /\ state = "DataMessages" <=> "IMAGE_MODE" \notin context.flags

\* The spec's scenario: video mode, one 1024x768 channel, empty Region.
C7_Witness ==
    /\ ret.kind = "Ok"
    /\ RegionOfCall.type = "Region" /\ RegionOfCall.v = <<>>
    /\ call.destination = Rect(0, 0, 0, 0)
    /\ channels = <<Channel(1024, 768)>>
    /\ context.flags = {}
    /\ ret.damage = Rect(0, 0, 1024, 768)
    /\ state = "DataMessages"

\* C8: every tile the engine decoded and applied has tx*64 and ty*64 within
\* the width and height of the first announced channel.
C8_TilesInsideChannel ==
    \A k \in DOMAIN blits :
        /\ blits[k].x * TILE_SIZE < channels[1].width
        /\ blits[k].y * TILE_SIZE < channels[1].height

\* The TileSet blocks of a stream with a quant index beyond the quant table.
BadQuantIndex(input) ==
    \E k \in DOMAIN input :
        /\ input[k].type = "TileSet"
        /\ \E t \in DOMAIN input[k].v.tiles :
              ~QuantIndexInRange(input[k].v.tiles[t], input[k].v.quants)

\* C9: a tile whose quant index is outside the quant table of its TileSet
\* makes decode return an error value, never a panic (stated for the build
\* without overflow checks, where no arithmetic can abort).
C9_BadQuantIndexIsError ==
    (BadQuantIndex(call.input) /\ ~call.overflow_checks) => ret.kind = "Err"

\* ------------------------------------------------------------------ C11
\* C11: on a CreateRequest for the graphics pipeline name the client's output
\* is the CreateResponse followed by one Data PDU carrying CapabilitiesAdvertise
\* with the id (and id width) of the request, in that order; on a CreateRequest
\* for any other name no output PDU carries CapabilitiesAdvertise.
C11_AdvertiseAfterCreateResponse ==
    request.kind = "CreateRequest" =>
        IF request.channel_name = RDP8_GRAPHICS_PIPELINE_NAME
        THEN /\ Len(output) = 2
             /\ output[1].pdu = "CreateResponse"
             /\ output[1].channel_id = request.channel_id
             /\ output[2] = [pdu |-> "Data",
                             channel_id_type |-> request.channel_id_type,
                             channel_id |-> request.channel_id,
                             status |-> "",
                             payload |-> "CapabilitiesAdvertise"]
        ELSE \A k \in DOMAIN output :
                output[k].payload # "CapabilitiesAdvertise"

\* A graphics pipeline channel was requested on id 2 after another request,
\* and the advertisement followed the response.
C11_Witness ==
    /\ request.kind = "CreateRequest"
    /\ request.channel_name = RDP8_GRAPHICS_PIPELINE_NAME
    /\ request.channel_id = 2
    /\ rx.pdus > 1
    /\ Len(output) = 2
    /\ output[1].pdu = "CreateResponse" /\ output[1].status = "OK"
    /\ output[2].pdu = "Data" /\ output[2].channel_id = 2
    /\ output[2].payload = "CapabilitiesAdvertise"

\* ------------------------------------------------------------------ C12
\* C12: the set of open channel ids changes only by a successful CreateRequest
\* (which adds its id) and by a CloseRequest; a CloseRequest{id} is answered
\* with exactly one CloseResponse for id, returns Ok, removes the channel of
\* that id together with its reassembly buffer and leaves the other channels
\* as they were; a Data or DataFirst PDU for an id that is not open reaches no
\* handler, produces no output and changes no channel.
C12_ChannelLifetime ==
    [][ rx' # rx =>
          LET id == request'.channel_id
              open == DOMAIN dynamic_channels
          IN  /\ request'.kind = "CloseRequest" =>
                    /\ output' = <<[pdu |-> "CloseResponse",
                                    channel_id_type |-> request'.channel_id_type,
                                    channel_id |-> id, status |-> "",
                                    payload |-> ""]>>
                    /\ result' = "Ok"
                    /\ DOMAIN dynamic_channels' = open \ {id}
                    /\ \A other \in open \ {id} :
                          dynamic_channels'[other] = dynamic_channels[other]
              /\ request'.kind = "CreateRequest" =>
                    /\ DOMAIN dynamic_channels' =
                          open \cup (IF output'[1].status = "OK"
                                     THEN {id} ELSE {})
                    /\ output'[1].status = "OK" =>
                          IsIdle(dynamic_channels'[id].data)
              /\ request'.kind \notin {"CloseRequest", "CreateRequest"} =>
                    DOMAIN dynamic_channels' = open
              /\ (request'.kind \in {"Data", "DataFirst"} /\ id \notin open) =>
                    /\ ~handled'.delivered
                    /\ output' = <<>>
                    /\ result' = "AccessToNonExistingChannel"
                    /\ dynamic_channels' = dynamic_channels
      ]_vars

\* A Data or DataFirst PDU arrived for an id that had been created (its name is
\* still in channel_map) and closed since: it was refused.
C12_Witness ==
    /\ request.kind \in {"Data", "DataFirst"}
    /\ Len(request.bytes) > 0
    /\ request.channel_id \notin DOMAIN dynamic_channels
    /\ \E name \in DOMAIN channel_map : channel_map[name] = request.channel_id
    /\ result = "AccessToNonExistingChannel"
    /\ ~handled.delivered

\* ------------------------------------------------------------------ C13
\* The acknowledgements for the EndFrame PDUs efs, the last of which brought
\* the count of decoded frames to after.
FrameAcknowledges(efs, after) ==
    [i \in 1..Len(efs) |->
        [queue_depth |-> "Suspend", frame_id |-> efs[i].frame_id,
         total_frames_decoded |-> after - Len(efs) + i]]

C14_DisconnectEndsLoop ==
    \A k \in DOMAIN wire :
        (wire[k].op = "read" /\ wire[k].what = "DisconnectProviderUltimatum")
        => /\ k = Len(wire)
           /\ pc # "Decoded" =>
                 /\ processed = Failure("UnexpectedDisconnection")
                 /\ exit = "Ok"
                 /\ pc = "Done"

\* The second PDU was a DisconnectProviderUltimatum, after a PDU that had been
\* replied to; the loop could have read one more PDU and has returned Ok(()).
C14_Witness ==
    /\ inbound.mcs = "DisconnectProviderUltimatum"
    /\ iteration = 2
    /\ iteration < MaxActivePdus
    /\ caused # <<>>
    /\ processed = Failure("UnexpectedDisconnection")
    /\ exit = "Ok"

\* C15: after the X224 arm ran, data on a joined static channel that is
\* neither DRDYNVC nor the global channel made Processor::process return
\* UnexpectedChannel; for UnexpectedChannel process_inner has returned Ok(());
\* for every error other than UnexpectedChannel and UnexpectedDisconnection it
\* has returned that error.
C15_UnexpectedChannelEndsCleanly ==
    (inbound.kind = "X224" /\ pc # "Decoded") =>
        /\ (inbound.mcs = "SendDataIndication"
              /\ Route(inbound.channel_id) = "other")
           => processed = Failure("UnexpectedChannel")
        /\ processed = Failure("UnexpectedChannel")
           => (exit = "Ok" /\ pc = "Done")
        /\ (processed.kind = "Err"
              /\ processed.err
                   \notin {"UnexpectedChannel", "UnexpectedDisconnection"})
           => (exit = "Err" /\ error = processed.err /\ pc = "Done")

\* Data arrived on the joined channel 1005 ("rdpsnd") as the second PDU and
\* the loop ended with Ok(()).
C15_Witness ==
    /\ inbound.kind = "X224"
    /\ inbound.channel_id = 1005
    /\ iteration = 2
    /\ processed = Failure("UnexpectedChannel")
    /\ exit = "Ok"

\* C16: a Send-Data-Indication whose channel id is not in static_channels makes
\* Processor::process return an error value, which process_inner returns.
C16_UnknownChannelIsError ==
    (/\ inbound.kind = "X224"
     /\ inbound.mcs = "SendDataIndication"
     /\ inbound.channel_id \notin DOMAIN static_channels
     /\ pc # "Decoded")
    => (processed.kind = "Err" /\ exit = "Err")

\* C17: after the arm for a null-length fast-path packet ran (and the read of
\* the bytes to drop succeeded), process_inner is still running, at the bottom
\* or the top of the loop, the output buffer is empty and no reply was caused
\* or written for that packet.
C17_NullLengthSkipped ==
    (inbound.err = "NullLength" /\ pc # "Decoded" /\ processed = Success) =>
        /\ exit = "Running"
        /\ pc \in {"Bottom", "Top"}
        /\ output_buffer = <<>>
        /\ \A k \in DOMAIN caused : caused[k].pdu # iteration
        /\ \A k \in DOMAIN wire :
              wire[k].op = "write" => wire[k].pdu # iteration

\* A null-length packet was dropped and the next PDU was read after it.
C17_Witness ==
    \E i, j \in DOMAIN wire :
        /\ i < j
        /\ wire[i].op = "read_exact"
        /\ wire[i].what = ""
        /\ wire[j].op = "read"
        /\ wire[j].pdu = wire[i].pdu + 1

\* The replies written to the stream.
Written == {Reply(wire[k].pdu, wire[k].n) :
               k \in {i \in DOMAIN wire : wire[i].op = "write"}}

\* C18: the events on the stream are in the order of the inbound PDUs (every
\* write of a reply to PDU k comes before the read of PDU k+1); no reply is
\* written twice; the output buffer is empty when a PDU has just been read and
\* never holds a reply to an earlier PDU; and at the top of the loop every
\* reply caused so far has been written.
C18_RepliesBeforeNextRead ==
    /\ \A i, j \in DOMAIN wire : i < j => wire[i].pdu <= wire[j].pdu
    /\ \A i, j \in DOMAIN wire :
          (i # j /\ wire[i].op = "write") => wire[i] # wire[j]
    /\ pc = "Decoded" => output_buffer = <<>>
    /\ \A k \in DOMAIN output_buffer : output_buffer[k].pdu = iteration
    /\ Written \subseteq {caused[k] : k \in DOMAIN caused}
    /\ pc = "Top" => Written = {caused[k] : k \in DOMAIN caused}

\* With the replies of Processor::process going through the output buffer, a
\* reply to the first PDU was written, then the second PDU was read, then a
\* reply to the second PDU was written.
C18_Witness ==
    /\ x224_sink = "output_buffer"
    /\ \E i, j, k \in DOMAIN wire :
          /\ i < j /\ j < k
          /\ wire[i].op = "write" /\ wire[i].pdu = 1
          /\ wire[j].op = "read" /\ wire[j].pdu = 2
          /\ wire[k].op = "write" /\ wire[k].pdu = 2

\* ------------------------------------------------------------------ C19
\* C19: parsing the bytes the framing encoder produced for (action, payload),
\* whatever follows them on the stream, succeeds and yields the same action,
\* a total length equal to the number of bytes encoded, those bytes with the
\* payload after the header, and leaves what followed on the stream.
C19_ParserInvertsEncoder ==
    framing.action # "" =>
        /\ framing.decoded.kind = "Ok"
        /\ framing.decoded.action = framing.action
        /\ framing.decoded.length = Len(framing.encoded)
        /\ framing.decoded.data = framing.encoded
        /\ SubSeq(framing.decoded.data, framing.decoded.begin + 1,
                  framing.decoded.length) = framing.payload
        /\ framing.decoded.rest = framing.trailer

\* A fast-path PDU whose length took two bytes, followed by more bytes, was
\* parsed back.
C19_Witness ==
    /\ framing.action = "FastPath"
    /\ Len(framing.payload) = 129
    /\ framing.encoded[2] >= 128
    /\ framing.trailer # <<>>
    /\ framing.decoded.kind = "Ok"
    /\ framing.decoded.length = 132

\* ------------------------------------------------------------------ C20
\* The points of the plane a rectangle covers.
Cells(r) ==
    {<<x, y>> : x \in r.left .. (r.right - 1), y \in r.top .. (r.bottom - 1)}
CellsOf(rs) == UNION {Cells(rs[k]) : k \in DOMAIN rs}

C23_IdleDataPassesThrough ==
    [][ ( /\ IsIdle(data)
          /\ Len(trace') = Len(trace) + 1
          /\ trace'[Len(trace')].kind = "Data" )
        => /\ trace'[Len(trace')].handled = Some(trace'[Len(trace')].bytes)
           /\ trace'[Len(trace')].ret = "Handler"
           /\ IsIdle(data') ]_vars

\* A new (idle) channel got Data(2 bytes) and then Data(1 byte): each was
\* handed to the handler as it came.
C23_Witness ==
    /\ Len(trace) = 2
    /\ trace[1].kind = "Data" /\ trace[1].bytes = <<1, 2>>
    /\ trace[1].handled = Some(<<1, 2>>)
    /\ trace[2].kind = "Data" /\ trace[2].bytes = <<3>>
    /\ trace[2].handled = Some(<<3>>)
    /\ IsIdle(data)

\* ------------------------------------------------------------------ C24
RECURSIVE Replay(_, _)
\* The reassembler after the first k PDUs of tr.
Replay(tr, k) ==
    IF k = 0 THEN CompleteData_new
    ELSE IF tr[k].kind = "DataFirst"
    THEN CD_process_data_first_pdu(Replay(tr, k - 1), tr[k].total,
                                   tr[k].bytes).self
    ELSE CD_process_data_pdu(Replay(tr, k - 1), tr[k].bytes).self

Bytes(seq) == {seq[k] : k \in DOMAIN seq}

\* C24: a DataFirst that arrives while bytes are accumulated raises no error,
\* and none of the bytes accumulated before it is in a message the handler is
\* given at or after it.
C24_InterruptedPartialDiscarded ==
    \A i \in 1..Len(trace) :
        ( /\ trace[i].kind = "DataFirst"
          /\ Replay(trace, i - 1).data # <<>> )
        => /\ trace[i].ret \in {"Handler", "OkNone"}
           /\ \A j \in i..Len(trace) :
                 IsSome(trace[j].handled)
                 => Bytes(trace[j].handled[1])
                      \cap Bytes(Replay(trace, i - 1).data) = {}

\* DataFirst(3, 2 bytes) was interrupted by DataFirst(3, 1 byte), and the
\* Data(2 bytes) after it completed a message of the three later bytes.
C24_Witness ==
    /\ Len(trace) = 3
    /\ trace[1].kind = "DataFirst" /\ trace[1].bytes = <<1, 2>>
    /\ trace[2].kind = "DataFirst" /\ trace[2].bytes = <<3>>
    /\ trace[2].handled = None
    /\ trace[3].kind = "Data"
    /\ trace[3].handled = Some(<<3, 4, 5>>)

\* ------------------------------------------------------------------ C25
\* C25: after a call that hands a complete message to the handler the
\* reassembler is idle, and a Data PDU that follows at once is handed to the
\* handler unchanged.
C25_IdleAfterDelivery ==
    /\ (Len(trace) > 0 /\ IsSome(trace[Len(trace)].handled)) => IsIdle(data)
    /\ \A i \in 1..(Len(trace) - 1) :
          (IsSome(trace[i].handled) /\ trace[i + 1].kind = "Data")
          => trace[i + 1].handled = Some(trace[i + 1].bytes)

\* ------------------------------------------------------------------ C26
\* C26: after a frame is decoded the engine is in HeaderMessages exactly when
\* the context in use has IMAGE_MODE, and in DataMessages otherwise: in image
\* mode a call that decodes the next frame starts with Sync and the headers
\* again, without IMAGE_MODE a call that decodes the next frame starts with
\* the frame and leaves the context and channels alone.
C26_HeadersAgainIffImageMode ==
    [][ /\ ret'.kind = "Ok" =>
              /\ state' \in {"HeaderMessages", "DataMessages"}
              /\ state' = "HeaderMessages" <=> "IMAGE_MODE" \in context'.flags
        /\ (ret.kind = "Ok" /\ ret'.kind = "Ok") =>
              IF "IMAGE_MODE" \in context.flags
              THEN /\ SyncAndThreeHeaders(call'.input)
                   /\ ret'.consumed = 8
              ELSE /\ call'.input[1].type = "FrameBegin"
                   /\ ret'.consumed = 4
                   /\ context' = context
                   /\ channels' = channels
      ]_vars

\* A frame was decoded in image mode from a call that brought the headers:
\* the engine asks for headers again.
C26_Witness ==
    /\ ret.kind = "Ok"
    /\ "IMAGE_MODE" \in context.flags
    /\ state = "HeaderMessages"
    /\ SyncAndThreeHeaders(call.input)
    /\ ret.consumed = 8
    /\ blits # <<>>

\* ------------------------------------------------------------------ C27
\* C27: in HeaderMessages, headers with a Context and whose Channels block
\* announces no channel make decode fail with NoRfxChannelsAnnounced; the
\* state stays HeaderMessages and the stored context and channels stay.
C27_NoChannelsRejected ==
    [][ ( /\ state = "HeaderMessages"
          /\ SyncAndThreeHeaders(call'.input)
          /\ HasHeader(call'.input, "Context")
          /\ HasHeader(call'.input, "Channels")
          /\ LastHeader(call'.input, "Channels") = <<>> )
        => /\ ret'.kind = "Err"
           /\ ret'.err = "NoRfxChannelsAnnounced"
           /\ state' = "HeaderMessages"
           /\ context' = context
           /\ channels' = channels
           /\ accepted' = accepted
           /\ blits' = <<>>
      ]_vars

\* With an image-mode context and a channel stored by an earlier call and the
\* engine back in HeaderMessages, headers with another context and no
\* channel were refused: the stored ones are still there.
C27_Witness ==
    /\ ret.err = "NoRfxChannelsAnnounced"
    /\ state = "HeaderMessages"
    /\ channels = <<Channel(1024, 768)>>
    /\ HasHeader(call.input, "Context")
    /\ context # LastHeader(call.input, "Context")

\* ------------------------------------------------------------------ C28
\* Every pixel of r is a pixel of s.
RectInside(r, s) ==
    /\ s.left <= r.left /\ r.right <= s.right
    /\ s.top <= r.top /\ r.bottom <= s.bottom

C30_OneReadPerIteration ==
    \A i, j \in DOMAIN wire :
        ( /\ wire[i].op \in {"read", "read_exact"}
          /\ wire[j].op \in {"read", "read_exact"}
          /\ wire[i].pdu = wire[j].pdu )
        => i = j

\* ------------------------------------------------------------------ C29
RECURSIVE ParsedPdus(_)
\* The PDUs of a message up to the first that does not parse.
ParsedPdus(pdus) ==
    IF pdus = <<>> \/ Head(pdus).type = "Malformed" THEN <<>>
    ELSE <<Head(pdus)>> \o ParsedPdus(Tail(pdus))

Inside(ops) == {t \in Threads : calls[t].at = "inside" /\ calls[t].op \in ops}

\* C21: over one underlying stream, at most one thread at a time executes a
\* read and at most one a write or a flush; and a thread that waits to write
\* or to flush waits for no reader: the mutex it asks for is free or held by
\* a thread that is itself writing or flushing, so a thread blocked in a read
\* keeps no clone from writing.
C21_IndependentDirections ==
    /\ Cardinality(Inside({"read"})) <= 1
    /\ Cardinality(Inside({"write", "flush"})) <= 1
    /\ \A t \in Threads :
          (calls[t].at = "lock" /\ calls[t].op \in {"write", "flush"}) =>
              \/ ENABLED StreamGetRef(t)
              \/ \E w \in Inside({"write", "flush"}) :
                    ENABLED StreamWriteReturns(w)

\* The receive loop is blocked in a read of a stream with nothing to read,
\* the event loop waits behind it to read, and the input thread is writing.
C21_Witness ==
    /\ unread = 0
    /\ calls["receive"] = [at |-> "inside", op |-> "read"]
    /\ calls["event_loop"] = [at |-> "lock", op |-> "read"]
    /\ calls["input"] = [at |-> "inside", op |-> "write"]

\* ------------------------------------------------------------------ C22
\* C22: once the receive loop has ended, what it returned is what run
\* returns; and the process exits with NOHOST when run returned an
\* unexpected end of file (as the read of a closed stream does) or failed to
\* connect, with IOERR on any other I/O error, with PROTOCOL on every other
\* error, and with OK on success.
C22_ExitCodeFromLoopResult ==
    /\ loop_result # NotReturned =>
          /\ run_at \in {"returned", "exited"}
          /\ run_result = loop_result
    /\ (closed /\ loop_result # NotReturned) =>
          loop_result = Failure("IOError(UnexpectedEof)")
    /\ run_at = "exited" =>
          exit_code =
              CASE run_result.kind = "Ok" -> "OK"
                [] run_result.err \in {"IOError(UnexpectedEof)",
                                       "ConnectionError"} -> "NOHOST"
                [] run_result.err = "IOError" -> "IOERR"
                [] OTHER -> "PROTOCOL"

\* ------------------------------------------------------------------ C31
\* The total length the header at the start of a stream declares, and the
\* number of header bytes, read off the bytes as the claim words it.
Declared(stream) ==
    IF stream[1] % 4 = 3
    THEN [length |-> stream[3] * 256 + stream[4], begin |-> 4]
    ELSE IF stream[2] >= 128
    THEN [length |-> (stream[2] - 128) * 256 + stream[3], begin |-> 3]
    ELSE [length |-> stream[2], begin |-> 2]

\* C31: on a stream that holds enough bytes the one-PDU reader fails with
\* InvalidActionCode when the two low bits of the first byte are neither 0b11
\* nor 0b00, and otherwise returns a buffer of exactly the declared total
\* length, the first bytes of the stream, whatever the declared length is,
\* also when it is smaller than the header already read.
C31_BufferOfDeclaredLength ==
    reading.stream # <<>> =>
        IF reading.stream[1] % 4 \notin {0, 3}
        THEN reading.ret.kind = "InvalidActionCode"
        ELSE /\ reading.ret.kind = "Ok"
             /\ reading.ret.action =
                   (IF reading.stream[1] % 4 = 3 THEN "X224" ELSE "FastPath")
             /\ Len(reading.ret.data) = Declared(reading.stream).length
             /\ reading.ret.data =
                   SubSeq(reading.stream, 1, Declared(reading.stream).length)

\* ------------------------------------------------------------------ C32
\* C32: when the PDU read is an MCS PDU that decodes but is neither a
\* Send-Data-Indication nor a DisconnectProviderUltimatum, processing it
\* returns UnexpectedPdu, process_inner returns that error, and the channel
\* state of the processor (dynamic_channels, channel_map, drdynvc_channel_id)
\* and the output are as before.
C32_OtherMcsPduIsFatal ==
    [][(/\ pc = "Decoded"
        /\ inbound.kind = "X224"
        /\ inbound.mcs \notin {"SendDataIndication",
                               "DisconnectProviderUltimatum", "Malformed"})
       => /\ processed' = Failure("UnexpectedPdu")
          /\ exit' = "Err"
          /\ error' = "UnexpectedPdu"
          /\ pc' = "Done"
          /\ UNCHANGED <<dynamic_channels, channel_map, drdynvc_channel_id,
                         output, output_buffer, wire>>]_vars

\* With a dynamic channel open, an Attach-User-Confirm arrived and ended the
\* loop with UnexpectedPdu.
C32_Witness ==
    /\ inbound.mcs = "AttachUserConfirm"
    /\ processed = Failure("UnexpectedPdu")
    /\ exit = "Err"
    /\ error = "UnexpectedPdu"
    /\ dynamic_channels # <<>>
    /\ channel_map # <<>>

\* ------------------------------------------------------------------ C33
\* C33: every reply emitted while an inbound DRDYNVC PDU is handled is a
\* Send-Data-Request with the initiator_id and the channel_id of the
\* Send-Data-Indication being processed and a pdu_length equal to the length
\* of the payload it carries.
C33_RepliesReuseInboundIds ==
    /\ Len(envelope.sent) = Len(envelope.payloads)
    /\ \A k \in DOMAIN envelope.sent :
          /\ envelope.sent[k].mcs = "SendDataRequest"
          /\ envelope.sent[k].initiator_id = envelope.inbound.initiator_id
          /\ envelope.sent[k].channel_id = envelope.inbound.channel_id
          /\ envelope.sent[k].pdu_length = Len(envelope.payloads[k])

\* The second indication came from initiator 1007 on channel 1004 and was
\* answered with two replies of different lengths.
C33_Witness ==
    /\ envelope.calls = 2
    /\ envelope.inbound = ChannelIdentificators(1007, 1004)
    /\ Len(envelope.sent) = 2
    /\ envelope.sent[1].pdu_length = 0
    /\ envelope.sent[2].pdu_length = 3
    /\ envelope.sent[2].initiator_id = 1007

\* ------------------------------------------------------------------ C34
\* A Send-Data-Indication of the global channel carrying the Share-Data PDU
\* share has been read and is about to be processed.
GlobalPduDecoded(share) ==
    /\ pc = "Decoded"
    /\ inbound.kind = "X224"
    /\ inbound.mcs = "SendDataIndication"
    /\ inbound.channel_id \in DOMAIN static_channels
    /\ static_channels[inbound.channel_id] = global_channel_name
    /\ inbound.share = share

\* C34: on the global channel SaveSessionInfo and ServerSetErrorInfo(None)
\* are accepted: processing returns Ok, the loop goes on, nothing is written
\* and the processor's state is as before. Any other ServerSetErrorInfo
\* returns ServerError and any other Share-Data PDU UnexpectedPdu, and
\* either ends the loop with that error.
C34_GlobalChannelPdus ==
    [][/\ (GlobalPduDecoded("SaveSessionInfo")
              \/ GlobalPduDecoded("ServerSetErrorInfo(None)"))
          => /\ processed' = Success
             /\ pc' = "Bottom"
             /\ exit' = "Running"
             /\ UNCHANGED <<dynamic_channels, channel_map, drdynvc_channel_id,
                            output, output_buffer, wire>>
       /\ GlobalPduDecoded("ServerSetErrorInfo(Error)")
          => /\ processed' = Failure("ServerError")
             /\ pc' = "Done" /\ exit' = "Err" /\ error' = "ServerError"
       /\ GlobalPduDecoded("OtherShareData")
          => /\ processed' = Failure("UnexpectedPdu")
             /\ pc' = "Done" /\ exit' = "Err" /\ error' = "UnexpectedPdu"]_vars

\* A ServerSetErrorInfo(None) was accepted with a dynamic channel open, and
\* the loop goes on.
C34_Witness ==
    /\ inbound.kind = "X224"
    /\ inbound.channel_id = 1003
    /\ inbound.share = "ServerSetErrorInfo(None)"
    /\ processed = Success
    /\ pc = "Bottom"
    /\ exit = "Running"
    /\ channel_map # <<>>

\* ------------------------------------------------------------------ C35
\* C35: channel_map and dynamic_channels agree after any CreateRequest and
\* CloseRequest PDUs: every name of channel_map maps to an id present in
\* dynamic_channels, every id of dynamic_channels is the target of exactly
\* one name, and Processor::send for a name of channel_map does not fail with
\* AccessToNonExistingChannel.
C35_ChannelMapsAgree ==
    /\ \A name \in DOMAIN channel_map :
          channel_map[name] \in DOMAIN dynamic_channels
    /\ \A id \in DOMAIN dynamic_channels :
          Cardinality({name \in DOMAIN channel_map : channel_map[name] = id})
              = 1
    /\ \A name \in DOMAIN channel_map :
          Processor_send(name, <<>>).res # Failure("AccessToNonExistingChannel")

\* ------------------------------------------------------------------ C38
\* C38: whenever channel_map is not empty, drdynvc_channel_id is the id of
\* the static channel named DRDYNVC, not the initial 0, and what
\* Processor::send sends for any name of channel_map is addressed to that
\* channel with the processor's user_id as initiator.
C38_SendAddressesDrdynvc ==
    channel_map # <<>> =>
        /\ drdynvc_channel_id \in DOMAIN static_channels
        /\ static_channels[drdynvc_channel_id] = DRDYNVC_CHANNEL_NAME
        /\ \A name \in DOMAIN channel_map :
              LET r == Processor_send(name, <<1, 2>>)
              IN  r.res = Success =>
                      /\ r.sent[1].mcs = "SendDataRequest"
                      /\ r.sent[1].channel_id \in DrdynvcIds
                      /\ r.sent[1].initiator_id = user_id

\* The graphics channel is open and Processor::send can send on it.
C38_Witness ==
    /\ RDP8_GRAPHICS_PIPELINE_NAME \in DOMAIN channel_map
    /\ Processor_send(RDP8_GRAPHICS_PIPELINE_NAME, <<1, 2>>).res = Success
    /\ Processor_send(RDP8_GRAPHICS_PIPELINE_NAME, <<1, 2>>).sent[1].channel_id
          = 1004
    /\ iteration >= 2

\* ------------------------------------------------------------------ C36
\* The bytes of seq were all addressed to channel id and are in the order
\* they arrived in.
OwnInOrder(id, seq) ==
    /\ \A k \in DOMAIN seq : seq[k] \div 100 = id
    /\ \A k \in 1..(Len(seq) - 1) : seq[k] < seq[k + 1]

\* C36: a DataFirst or Data PDU for one channel leaves the reassembly state
\* (total_size and buffer) of every other channel as it was; so however the
\* PDUs of two channels interleave, what a channel has accumulated and what
\* its handler is given are bytes addressed to that channel, in order.
C36_ReassemblyPerChannel ==
    [][/\ \A b \in ChannelIds \ {lane_call'.id} :
             lanes'[b].data = lanes[b].data
       /\ \A id \in ChannelIds : OwnInOrder(id, lanes'[id].data.data)
       /\ IsSome(lane_call'.ret) =>
             OwnInOrder(lane_call'.id, lane_call'.ret[1])]_vars

\* While channel 1 was in the middle of a message, channel 2 received a
\* message in two fragments: its handler was given the two fragments, and
\* channel 1 still holds its own.
C36_Witness ==
    /\ lane_call.id = 2
    /\ lane_call.ret = Some(<<LaneByte(2, 1), LaneByte(2, 2), LaneByte(2, 3)>>)
    /\ lanes[1].data.total_size = 3
    /\ lanes[1].data.data = <<LaneByte(1, 1), LaneByte(1, 2)>>
    /\ lane_pdus = 4

\* ------------------------------------------------------------------ C37
\* C37: a DataFirst or Data PDU for a channel id that is not in
\* dynamic_channels (never created, refused with NO_LISTENER, or closed)
\* makes processing return AccessToNonExistingChannel: no handler is given
\* anything, nothing is emitted, and dynamic_channels and channel_map are as
\* before.
C37_DataOnMissingChannel ==
    [][(/\ request'.kind \in {"DataFirst", "Data"}
        /\ rx'.pdus = rx.pdus + 1
        /\ request'.channel_id \notin DOMAIN dynamic_channels)
       => /\ result' = "AccessToNonExistingChannel"
          /\ ~handled'.delivered
          /\ output' = <<>>
          /\ UNCHANGED <<dynamic_channels, channel_map>>]_vars

\* A channel was created and closed, and a Data PDU for its id was refused.
C37_Witness ==
    /\ request.kind = "Data"
    /\ result = "AccessToNonExistingChannel"
    /\ request.channel_id \notin DOMAIN dynamic_channels
    /\ \E name \in DOMAIN channel_map : channel_map[name] = request.channel_id
    /\ output = <<>>

\* ------------------------------------------------------------------ C39
\* C39: the bytes of two PDUs written through clones of the shared stream
\* are never interleaved on the underlying stream: between two bytes of one
\* PDU there is no byte of another.
C39_PdusContiguous ==
    \A i, j, k \in DOMAIN underlying :
        (i < j /\ j < k /\ underlying[i] = underlying[k])
            => underlying[j] = underlying[i]

\* ------------------------------------------------------------------ C40
\* C40: a call of decode that returns an error leaves the image and the
\* sequence state as they were: no tile of the frame has written a pixel,
\* and state, context and channels are those before the call.
C40_FrameAllOrNothing ==
    [][ret'.kind = "Err"
       => /\ \A k \in DOMAIN blits' : blits'[k].painted = <<>>
          /\ state' = state
          /\ context' = context
          /\ channels' = channels]_vars

====
